---- MODULE Spec2Model ----
(***************************************************************************)
(* A model of the C-subset compiler pipeline: source text -> lexer ->      *)
(* parser -> resolver -> three-address code -> assembly builder -> pseudo  *)
(* replacement -> legalization -> emitted text, and the execution of the   *)
(* generated code.                                                         *)
(* Lexemes are sequences of one-character strings, so that names built by  *)
(* format!() (tmp.N, label.N, name.N) and the decimal parse of constants   *)
(* are computed and not assumed.  The generated code is executed twice:    *)
(* as the TAC it was built from, and as the emitted text on the registers, *)
(* stack slots and flags it names.                                         *)
(***************************************************************************)
EXTENDS Integers, Sequences, FiniteSets, TLC

\* ------------------------------------------------------------------ bounds
\* Operand constants of the generated programs range over 0..MaxConst.
MaxConst == 2

\* ------------------------------------------------------------ i32 values
I32Max == 2147483647
I32Min == -2147483647 - 1

DigitChars == <<"0", "1", "2", "3", "4", "5", "6", "7", "8", "9">>

\* format!("{}", n) for a non-negative n
RECURSIVE Dec(_)
Dec(n) == IF n < 10 THEN <<DigitChars[n + 1]>>
          ELSE Dec(n \div 10) \o <<DigitChars[(n % 10) + 1]>>

DigitVal(c) == CHOOSE d \in 0..9 : DigitChars[d + 1] = c

\* str::parse::<i32>() on a run of digits: the value, or -1 for its Err
\* (the value does not fit in an i32)
RECURSIVE ParseDigits(_, _)
ParseDigits(digits, acc) ==
    IF digits = <<>> THEN acc
    ELSE LET d == DigitVal(Head(digits)) IN
         IF acc = -1 \/ acc > (I32Max - d) \div 10 THEN -1
         ELSE ParseDigits(Tail(digits), acc * 10 + d)

ParseI32(digits) == ParseDigits(digits, 0)

\* ------------------------------------------------------------------ tokens
Tok(t, v) == [token_type |-> t, value |-> v]

s_int    == <<"i", "n", "t">>
s_main   == <<"m", "a", "i", "n">>
s_void   == <<"v", "o", "i", "d">>
s_return == <<"r", "e", "t", "u", "r", "n">>
s_tmp    == <<"t", "m", "p", ".">>
s_label  == <<"l", "a", "b", "e", "l", ".">>

\* ---------------------------------------------------------------- the AST
FInt(v)           == [k |-> "Int", v |-> v]
Unary(op, f)      == [k |-> "Unary", op |-> op, f |-> f]
FExp(e)           == [k |-> "Exp", e |-> e]
Var(name)         == [k |-> "Var", name |-> name]
Factor(f)         == [k |-> "Factor", f |-> f]
Binary(l, op, r)  == [k |-> "Binary", l |-> l, op |-> op, r |-> r]
Assignment(l, r)  == [k |-> "Assignment", l |-> l, r |-> r]
Return(e)         == [k |-> "Return", e |-> e]
Expression(e)     == [k |-> "Expression", e |-> e]
Null              == [k |-> "Null"]
Declaration(n, i) == [k |-> "Declaration", name |-> n, init |-> i]
None              == [k |-> "None"]
Some(e)           == [k |-> "Some", e |-> e]

BinaryOps == {"Add", "Subtract", "Multiply", "Divide", "Modulo", "LeftShift",
              "RightShift", "BitwiseAnd", "BitwiseOr", "BitwiseXor",
              "LogicalAnd", "LogicalOr", "Equal", "NotEqual", "GreaterThan",
              "LessThan", "GreaterThanOrEqual", "LessThanOrEqual",
              "Assignment"}

\* ------------------------------------------------------- Result<T, String>
Ok(v, rest)    == [st |-> "ok", val |-> v, rest |-> rest, err |-> "none"]
Err(msg, rest) == [st |-> "err", val |-> None, rest |-> rest, err |-> msg]
Panic(rest)    == [st |-> "panic", val |-> None, rest |-> rest, err |-> "panic"]

\* The messages of the Err(String) values, by their fixed text.
EOFMsg == "Unexpected end of file"

\* ------------------------------------------------------------------- lexer
LowerChars == { "a", "b", "c", "d", "e", "f", "g", "h", "i", "j", "k", "l",
               "m", "n", "o", "p", "q", "r", "s", "t", "u", "v", "w", "x",
               "y", "z" }
UpperChars == { "A", "B", "C", "D", "E", "F", "G", "H", "I", "J", "K", "L",
               "M", "N", "O", "P", "Q", "R", "S", "T", "U", "V", "W", "X",
               "Y", "Z" }

\* char::is_digit(10), is_alphabetic, is_alphanumeric, is_whitespace on the
\* characters of the texts used here
is_digit(c)        == \E d \in 1..10 : DigitChars[d] = c
\* variant: the lower-case letters only
is_alphabetic_lower(c) == c \in LowerChars

is_alphabetic(c)   == c \in LowerChars \cup UpperChars
is_alphanumeric(c) == is_alphabetic(c) \/ is_digit(c)
is_whitespace(c)   == c \in {" ", "\t", "\n", "\r"}

\* self.text.chars().nth(self.pos).unwrap(), pos counted from 0
CharAt(text, pos) == text[pos + 1]

RECURSIVE skip_whitespace(_, _)
skip_whitespace(text, pos) ==
    IF pos < Len(text) /\ is_whitespace(CharAt(text, pos))
    THEN skip_whitespace(text, pos + 1)
    ELSE pos

Lexed(token, pos) == [token |-> token, pos |-> pos]

RECURSIVE number_loop(_, _, _)
number_loop(text, pos, result) ==
    IF pos < Len(text) /\ is_digit(CharAt(text, pos))
    THEN number_loop(text, pos + 1, Append(result, CharAt(text, pos)))
    ELSE Lexed(Tok("CONSTANT", result), pos)

number(text, pos) == number_loop(text, pos, <<>>)

keywords == { <<"i", "f">>, <<"e", "l", "s", "e">>, <<"w", "h", "i", "l", "e">>,
              <<"f", "o", "r">>, <<"r", "e", "t", "u", "r", "n">>, <<"i", "n", "t">> }

RECURSIVE identifier_loop(_, _, _)
identifier_loop(text, pos, result) ==
    IF pos < Len(text)
       /\ (is_alphanumeric(CharAt(text, pos)) \/ CharAt(text, pos) = "_")
    THEN identifier_loop(text, pos + 1, Append(result, CharAt(text, pos)))
    ELSE Lexed(Tok(IF result \in keywords THEN "KEYWORD" ELSE "IDENTIFIER", result),
               pos)

\* (the panic on a first character that is neither a letter nor `_` cannot
\* happen: next calls identifier on 'a'..='z' | 'A'..='Z' only)
identifier(text, pos) == identifier_loop(text, pos + 1, <<CharAt(text, pos)>>)

\* Result<Option<Token>, String> of next, with the position it leaves
LexSome(token, pos) == [st |-> "Some", token |-> token, pos |-> pos, err |-> "none"]
LexNone(pos)        == [st |-> "None", token |-> None, pos |-> pos, err |-> "none"]
LexErr(msg, pos)    == [st |-> "Err", token |-> None, pos |-> pos, err |-> msg]

InvalidConstantMsg  == "Invalid constant followed by identifier"
InvalidCharacterMsg == "Invalid character"

\* the position of the next '\n' at or after pos, or the end of the text
RECURSIVE line_end(_, _)
line_end(text, pos) ==
    IF pos < Len(text) /\ CharAt(text, pos) # "\n" THEN line_end(text, pos + 1)
    ELSE pos

\* the loop of the `/*` arm
RECURSIVE long_comment_loop(_, _, _)
long_comment_loop(text, pos, long_comment) ==
    IF pos >= Len(text) THEN Lexed(Tok("LongComment", long_comment), pos)
    ELSE LET pushed == Append(long_comment, CharAt(text, pos)) IN
         IF CharAt(text, pos) = "*"
         THEN IF pos + 1 < Len(text) /\ CharAt(text, pos + 1) = "/"
              THEN Lexed(Tok("LongComment", Append(pushed, "/")), pos + 2)
              ELSE long_comment_loop(text, pos + 1, pushed)
         ELSE long_comment_loop(text, pos + 1, pushed)

\* a one-character token, or the two-character one when `second` follows
OneOrTwo(text, pos, second, two, one) ==
    IF pos + 1 < Len(text) /\ CharAt(text, pos + 1) = second
    THEN LexSome(Tok(two, <<CharAt(text, pos), second>>), pos + 2)
    ELSE LexSome(Tok(one, <<CharAt(text, pos)>>), pos + 1)

SingleCharTokens ==
    [c \in {"(", ")", "{", "}", ";", "*", "~", "%", "+", "^", "?", ":"} |->
       CASE c = "(" -> "OpenParen"
         [] c = ")" -> "CloseParen"
         [] c = "{" -> "OpenBrace"
         [] c = "}" -> "CloseBrace"
         [] c = ";" -> "SEMICOLON"
         [] c = "*" -> "STAR"
         [] c = "~" -> "TildeOp"
         [] c = "%" -> "MODULUS"
         [] c = "+" -> "PLUS"
         [] c = "^" -> "CARET"
         [] c = "?" -> "QuestionMark"
         [] c = ":" -> "Colon"]

\* the arm 'a'..='z' | 'A'..='Z' of next
starts_identifier(c) == c \in LowerChars \cup UpperChars

next(text, pos0) ==
    LET pos == skip_whitespace(text, pos0) IN
    IF pos >= Len(text) THEN LexNone(pos)
    ELSE LET c == CharAt(text, pos) IN
      CASE is_digit(c) ->
             LET num_token == number(text, pos) IN
             IF num_token.pos < Len(text) /\ is_alphabetic(CharAt(text, num_token.pos))
             THEN LexErr(InvalidConstantMsg, num_token.pos)
             ELSE LexSome(num_token.token, num_token.pos)
        [] starts_identifier(c) ->
             LET id == identifier(text, pos) IN LexSome(id.token, id.pos)
        [] c \in DOMAIN SingleCharTokens ->
             LexSome(Tok(SingleCharTokens[c], <<c>>), pos + 1)
        [] c = "/" ->
             IF pos + 1 < Len(text) /\ CharAt(text, pos + 1) = "/"
             THEN LexSome(Tok("COMMENT", <<"/", "/">>), line_end(text, pos + 2))
             ELSE IF pos + 1 < Len(text) /\ CharAt(text, pos + 1) = "*"
             THEN LET r == long_comment_loop(text, pos + 2, <<"/", "*">>)
                  IN LexSome(r.token, r.pos)
             ELSE LexSome(Tok("SLASH", <<"/">>), pos + 1)
        [] c = "-" -> OneOrTwo(text, pos, "-", "DecrementOp", "NegationOp")
        [] c = "&" -> OneOrTwo(text, pos, "&", "LogicalAnd", "AMPERSAND")
        [] c = "|" -> OneOrTwo(text, pos, "|", "LogicalOr", "PIPE")
        [] c = "<" ->
             IF pos + 1 < Len(text) /\ CharAt(text, pos + 1) = "<"
             THEN LexSome(Tok("LeftShift", <<"<", "<">>), pos + 2)
             ELSE OneOrTwo(text, pos, "=", "LessThanOrEqual", "LessThan")
        [] c = ">" ->
             IF pos + 1 < Len(text) /\ CharAt(text, pos + 1) = ">"
             THEN LexSome(Tok("RightShift", <<">", ">">>), pos + 2)
             ELSE OneOrTwo(text, pos, "=", "GreaterThanOrEqual", "GreaterThan")
        [] c = "!" -> OneOrTwo(text, pos, "=", "NotEqual", "LogicalNot")
        [] c = "=" -> OneOrTwo(text, pos, "=", "Equal", "Assignment")
        [] c = "#" ->
             LexSome(Tok("Tag", SubSeq(text, pos + 1, line_end(text, pos + 1))),
                     line_end(text, pos + 1))
        [] OTHER -> LexErr(InvalidCharacterMsg, pos)

\* main.rs: tokens.retain(..), the comment tokens dropped
retain(toks) ==
    SelectSeq(toks, LAMBDA t : t.token_type \notin {"COMMENT", "LongComment"})

\* ------------------------------------------------------------------ parser
expect_int_keyword(token)  == token.value = s_int
expect_main_keyword(token) == token.value = s_main
expect_void_keyword(token) == token.value = s_void
expect_identifier(token)   == token.token_type = "IDENTIFIER"
expect_token_type(token, token_type) == token.token_type = token_type

get_operator_precedence(op) ==
    CASE op \in {"Multiply", "Divide", "Modulo"} -> 50
      [] op \in {"Add", "Subtract"} -> 45
      [] op \in {"LeftShift", "RightShift"} -> 45
      [] op = "BitwiseAnd" -> 44
      [] op = "BitwiseXor" -> 43
      [] op = "BitwiseOr" -> 42
      [] op \in {"GreaterThan", "LessThan", "GreaterThanOrEqual",
                 "LessThanOrEqual"} -> 35
      [] op \in {"Equal", "NotEqual"} -> 30
      [] op = "LogicalAnd" -> 10
      [] op = "LogicalOr" -> 5
      [] op = "Assignment" -> 1

\* parse_op: the operator of a token, or "none" for its Err
parse_op(token) ==
    CASE token.token_type = "PLUS" -> "Add"
      [] token.token_type = "NegationOp" -> "Subtract"
      [] token.token_type = "STAR" -> "Multiply"
      [] token.token_type = "SLASH" -> "Divide"
      [] token.token_type = "MODULUS" -> "Modulo"
      [] token.token_type = "AMPERSAND" -> "BitwiseAnd"
      [] token.token_type = "PIPE" -> "BitwiseOr"
      [] token.token_type = "CARET" -> "BitwiseXor"
      [] token.token_type = "LeftShift" -> "LeftShift"
      [] token.token_type = "RightShift" -> "RightShift"
      [] token.token_type = "Equal" -> "Equal"
      [] token.token_type = "NotEqual" -> "NotEqual"
      [] token.token_type = "GreaterThan" -> "GreaterThan"
      [] token.token_type = "LessThan" -> "LessThan"
      [] token.token_type = "GreaterThanOrEqual" -> "GreaterThanOrEqual"
      [] token.token_type = "LessThanOrEqual" -> "LessThanOrEqual"
      [] token.token_type = "LogicalAnd" -> "LogicalAnd"
      [] token.token_type = "LogicalOr" -> "LogicalOr"
      [] token.token_type = "Assignment" -> "Assignment"
      [] OTHER -> "none"

\* variant: the right operand of every operator is parsed at the operator's
\* own level, as only `=` is
right_min_precedence_same_level(is_assignment, precedence) == precedence

\* the min_precedence handed to the parse of the right operand: the same
\* level after `=` (right-associative), one more otherwise (left-associative)
right_min_precedence(is_assignment, precedence) ==
    IF is_assignment THEN precedence ELSE precedence + 1

\* parse_factor / parse_expression.  prec is the precedence table the
\* climbing loop consults (the program's own table is PrecTable below).
RECURSIVE parse_factor(_, _), parse_expression(_, _, _), parse_expression_loop(_, _, _, _)

parse_factor(prec, tokens) ==
    IF tokens = <<>> THEN Err(EOFMsg, tokens)
    ELSE
      LET token == Head(tokens)
          rest  == Tail(tokens)
      IN CASE token.token_type = "CONSTANT" ->
                LET n == ParseI32(token.value) IN
                IF n = -1 THEN Panic(rest) ELSE Ok(FInt(n), rest)
           [] token.token_type = "IDENTIFIER" ->
                Ok(FExp(Var(token.value)), rest)
           [] token.token_type \in {"NegationOp", "TildeOp", "LogicalNot"} ->
                LET r  == parse_factor(prec, rest)
                    op == CASE token.token_type = "NegationOp" -> "Negation"
                            [] token.token_type = "TildeOp" -> "Complement"
                            [] token.token_type = "LogicalNot" -> "LogicalNot"
                IN IF r.st = "ok" THEN Ok(Unary(op, r.val), r.rest) ELSE r
           [] token.token_type = "OpenParen" ->
                LET r == parse_expression(prec, rest, 0) IN
                IF r.st # "ok" THEN r
                ELSE IF r.rest = <<>> THEN Err(EOFMsg, r.rest)
                ELSE IF ~expect_token_type(Head(r.rest), "CloseParen")
                     THEN Err("Expected token type", Tail(r.rest))
                ELSE Ok(FExp(r.val), Tail(r.rest))
           [] OTHER -> Err("Unexpected token while parsing factor", tokens)

parse_expression_loop(prec, left, tokens, min_precedence) ==
    IF tokens = <<>> THEN Ok(left, tokens)
    ELSE
      LET op == parse_op(Head(tokens)) IN
      IF op = "none" THEN Ok(left, tokens)
      ELSE
        LET precedence == prec[op] IN
        IF precedence < min_precedence THEN Ok(left, tokens)
        ELSE IF Head(tokens).token_type = "Assignment"
        THEN LET r == parse_expression(prec, Tail(tokens),
                                       right_min_precedence(TRUE, precedence)) IN
             IF r.st # "ok" THEN r
             ELSE parse_expression_loop(prec, Assignment(left, r.val), r.rest,
                                        min_precedence)
        ELSE LET r == parse_expression(prec, Tail(tokens),
                                       right_min_precedence(FALSE, precedence)) IN
             IF r.st # "ok" THEN r
             ELSE parse_expression_loop(prec, Binary(left, op, r.val), r.rest,
                                        min_precedence)

parse_expression(prec, tokens, min_precedence) ==
    LET f == parse_factor(prec, tokens) IN
    IF f.st # "ok" THEN f
    ELSE parse_expression_loop(prec, Factor(f.val), f.rest, min_precedence)

PrecTable == [op \in BinaryOps |-> get_operator_precedence(op)]

parse_declaration(prec, tokens) ==
    IF tokens = <<>> THEN Err(EOFMsg, tokens)
    ELSE IF ~expect_int_keyword(Head(tokens))
         THEN Err("Expected int keyword", Tail(tokens))
    ELSE LET t1 == Tail(tokens) IN
    IF t1 = <<>> THEN Err(EOFMsg, t1)
    ELSE IF ~expect_identifier(Head(t1)) THEN Err("Expected identifier", Tail(t1))
    ELSE LET name_token == Head(t1)
             t2 == Tail(t1)
         IN
    IF t2 = <<>> THEN Err(EOFMsg, t2)
    ELSE LET hasInit == Head(t2).token_type = "Assignment"
             t3 == IF hasInit THEN Tail(t2) ELSE t2
             e  == IF hasInit
                   THEN (IF t3 = <<>> THEN Err(EOFMsg, t3)
                         ELSE parse_expression(prec, t3, 0))
                   ELSE Ok(None, t3)
         IN
    IF e.st # "ok" THEN e
    ELSE IF e.rest = <<>> THEN Err(EOFMsg, e.rest)
    ELSE IF ~expect_token_type(Head(e.rest), "SEMICOLON")
         THEN Err("Expected token type", Tail(e.rest))
    ELSE Ok(Declaration(name_token.value,
                        IF hasInit THEN Some(e.val) ELSE None),
            Tail(e.rest))

parse_statement(prec, tokens) ==
    IF tokens = <<>> THEN Err(EOFMsg, tokens)
    ELSE
      LET token == Head(tokens) IN
      IF token.token_type = "SEMICOLON" THEN Ok(Null, Tail(tokens))
      ELSE
        LET isRet == token.token_type = "KEYWORD" /\ token.value = s_return
            t1    == IF isRet THEN Tail(tokens) ELSE tokens
        IN
        IF isRet /\ t1 = <<>> THEN Err(EOFMsg, t1)
        ELSE
          LET e == parse_expression(prec, t1, 0) IN
          IF e.st # "ok" THEN e
          ELSE IF e.rest = <<>> THEN Err(EOFMsg, e.rest)
          ELSE IF ~expect_token_type(Head(e.rest), "SEMICOLON")
               THEN Err("Expected token type", Tail(e.rest))
          ELSE Ok(IF isRet THEN Return(e.val) ELSE Expression(e.val),
                  Tail(e.rest))

\* tokens[0] is indexed unconditionally: an empty buffer panics
parse_block_items(prec, tokens) ==
    IF tokens = <<>> THEN Panic(tokens)
    ELSE IF expect_int_keyword(Head(tokens)) THEN parse_declaration(prec, tokens)
    ELSE parse_statement(prec, tokens)

\* ---------------------------------------------------------------- resolver
ROk(v)    == [st |-> "ok", val |-> v, err |-> "none"]
RErr(msg) == [st |-> "err", val |-> None, err |-> msg]

\* HashMap<String, String>: a function whose domain is the set of keys
EmptyTable == <<>>
contains_key(symbol_table, name) == name \in DOMAIN symbol_table
insert(symbol_table, name, v) == (name :> v) @@ symbol_table

RECURSIVE make_temporary_loop(_, _, _, _)
make_temporary_loop(name, symbol_table, counter, temp_name) ==
    IF contains_key(symbol_table, temp_name)
    THEN make_temporary_loop(name, symbol_table, counter + 1,
                             name \o <<".">> \o Dec(counter + 1))
    ELSE temp_name

\* variant: the unique name always carries a counter
make_temporary_counted(name, symbol_table) ==
    name \o <<".">> \o Dec(Cardinality(DOMAIN symbol_table) + 1)

make_temporary(name, symbol_table) ==
    make_temporary_loop(name, symbol_table, 0, name)

\* variant: any factor is taken for a target
IsAssignmentTarget_any_factor(resolved_left) ==
    resolved_left.k \in {"Var", "Factor"}

\* the match on the resolved left side of an assignment
IsAssignmentTarget(resolved_left) ==
    \/ resolved_left.k = "Var"
    \/ /\ resolved_left.k = "Factor"
       /\ resolved_left.f.k = "Exp"
       /\ resolved_left.f.e.k = "Var"

\* variant: a name that is not in the table is passed through unchanged
resolve_var_unchecked(name, symbol_table) ==
    ROk(Var(IF contains_key(symbol_table, name) THEN symbol_table[name] ELSE name))

\* the Exp::Var arm of resolve_expression
resolve_var(name, symbol_table) ==
    IF ~contains_key(symbol_table, name)
    THEN RErr("Variable not declared")
    ELSE ROk(Var(symbol_table[name]))

RECURSIVE resolve_expression(_, _)
resolve_expression(exp, symbol_table) ==
    CASE exp.k = "Assignment" ->
           LET resolved_left == resolve_expression(exp.l, symbol_table) IN
           IF resolved_left.st # "ok" THEN resolved_left
           ELSE
             LET resolved_right == resolve_expression(exp.r, symbol_table) IN
             IF resolved_right.st # "ok" THEN resolved_right
             ELSE IF ~IsAssignmentTarget(resolved_left.val)
                  THEN RErr("Left side of assignment must resolve to a variable")
             ELSE ROk(Assignment(resolved_left.val, resolved_right.val))
      [] exp.k = "Var" -> resolve_var(exp.name, symbol_table)
      [] exp.k = "Binary" ->
           LET resolved_left == resolve_expression(exp.l, symbol_table) IN
           IF resolved_left.st # "ok" THEN resolved_left
           ELSE
             LET resolved_right == resolve_expression(exp.r, symbol_table) IN
             IF resolved_right.st # "ok" THEN resolved_right
             ELSE ROk(Binary(resolved_left.val, exp.op, resolved_right.val))
      [] exp.k = "Factor" ->
           CASE exp.f.k = "Int" -> ROk(Factor(FInt(exp.f.v)))
             [] exp.f.k = "Unary" ->
                  LET resolved == resolve_expression(Factor(exp.f.f), symbol_table) IN
                  IF resolved.st # "ok" THEN resolved
                  ELSE IF resolved.val.k = "Factor"
                       THEN ROk(Factor(Unary(exp.f.op, resolved.val.f)))
                  ELSE RErr("Expected a Factor after resolving unary expression")
             [] exp.f.k = "Exp" ->
                  LET resolved == resolve_expression(exp.f.e, symbol_table) IN
                  IF resolved.st # "ok" THEN resolved
                  ELSE ROk(Factor(FExp(resolved.val)))

\* variant: a declaration of a name already in the table replaces its entry
resolve_declaration_shadowing(name, init, symbol_table) ==
    LET unique_id == make_temporary(name, symbol_table)
        table1    == insert(symbol_table, name, unique_id)
    IN IF init.k = "Some"
       THEN LET r == resolve_expression(init.e, table1) IN
            [res |-> IF r.st = "ok"
                     THEN ROk(Declaration(unique_id, Some(r.val))) ELSE r,
             table |-> table1]
       ELSE [res |-> ROk(Declaration(unique_id, None)), table |-> table1]

\* returns the result and the symbol table as the call leaves it
resolve_declaration(name, init, symbol_table) ==
    IF contains_key(symbol_table, name)
    THEN [res |-> RErr("Variable already declared"), table |-> symbol_table]
    ELSE
      LET unique_id == make_temporary(name, symbol_table)
          table1    == insert(symbol_table, name, unique_id)
      IN IF init.k = "Some"
         THEN LET r == resolve_expression(init.e, table1) IN
              [res |-> IF r.st = "ok"
                       THEN ROk(Declaration(unique_id, Some(r.val))) ELSE r,
               table |-> table1]
         ELSE [res |-> ROk(Declaration(unique_id, None)), table |-> table1]

resolve_statement(statement, symbol_table) ==
    CASE statement.k = "Return" ->
           LET r == resolve_expression(statement.e, symbol_table) IN
           IF r.st = "ok" THEN ROk(Return(r.val)) ELSE r
      [] statement.k = "Expression" ->
           LET r == resolve_expression(statement.e, symbol_table) IN
           IF r.st = "ok" THEN ROk(Expression(r.val)) ELSE r
      [] statement.k = "Null" -> ROk(Null)

resolve_block_item(item, symbol_table) ==
    IF item.k = "Declaration"
    THEN resolve_declaration(item.name, item.init, symbol_table)
    ELSE [res |-> resolve_statement(item, symbol_table), table |-> symbol_table]

\* ------------------------------------------------------ three-address code
Constant(v)      == [k |-> "Constant", v |-> v]
Identifier(name) == [k |-> "Identifier", name |-> name]

TacReturn(v)               == [k |-> "Return", val |-> v]
TacUnary(op, src, dst)     == [k |-> "Unary", operator |-> op, src |-> src, dst |-> dst]
TacBinary(op, s1, s2, dst) == [k |-> "Binary", operator |-> op, src1 |-> s1,
                               src2 |-> s2, dst |-> dst]
TacCopy(src, dst)          == [k |-> "Copy", src |-> src, dst |-> dst]
JumpIfZero(src, label)     == [k |-> "JumpIfZero", src |-> src, label |-> label]
JumpIfNotZero(src, label)  == [k |-> "JumpIfNotZero", src |-> src, label |-> label]
Label(label)               == [k |-> "Label", label |-> label]

\* impl From<&UnaryOp> for UnaryOperator
UnaryOperatorFrom(op) ==
    CASE op = "Negation" -> "Negate"
      [] op = "Complement" -> "Complement"
      [] op = "LogicalNot" -> "LogicalNot"

\* impl From<&BinaryOp> for BinaryOperator
BinaryOperatorFrom(op) ==
    CASE op = "BitwiseAnd" -> "Ampersand"
      [] op = "BitwiseOr" -> "Pipe"
      [] op = "BitwiseXor" -> "Caret"
      [] op = "LeftShift" -> "ShiftLeft"
      [] op = "RightShift" -> "ShiftRight"
      [] op = "Assignment" -> "Assign"
      [] OTHER -> op

\* The lowering returns the Val it yields and the body as it leaves it.  sc
\* is bookkeeping that the code does not keep: for every && and || it lowers,
\* the position of the conditional jump, the positions [rstart, rend) of the
\* right operand's instructions, the position of the label, and the Vals of
\* the two operands and of the result.
Gen(val, body, sc) == [val |-> val, body |-> body, sc |-> sc]

RECURSIVE FactorGenerateTac(_, _, _), ExpGenerateTac(_, _, _)

\* variant: the two conditional jumps exchanged
short_circuit_jump_swapped(op) ==
    IF op = "LogicalAnd" THEN "JumpIfNotZero" ELSE "JumpIfZero"

\* the conditional jump pushed after the left operand of && and of ||
short_circuit_jump(op) ==
    IF op = "LogicalAnd" THEN "JumpIfZero" ELSE "JumpIfNotZero"

\* variant: && and || lowered like the other binary operators
ShortCircuit_as_binary(exp, body, sc) ==
    LET l   == ExpGenerateTac(exp.l, body, sc)
        r   == ExpGenerateTac(exp.r, l.body, l.sc)
        dst == Identifier(s_tmp \o Dec(Len(r.body)))
    IN Gen(dst,
           Append(r.body, TacBinary(BinaryOperatorFrom(exp.op), l.val, r.val, dst)),
           r.sc)

\* variant: the label of an && or || placed before its conditional jump
ShortCircuit_label_first(exp, body, sc) ==
    LET l        == ExpGenerateTac(exp.l, body, sc)
        n        == Len(l.body)
        dst      == Identifier(s_tmp \o Dec(n))
        label    == Identifier(s_label \o Dec(n))
        bool_dst == Identifier(s_tmp \o Dec(n + 1))
        body1    == l.body \o << TacBinary("NotEqual", l.val, Constant(0), bool_dst),
                                 Label(label),
                                 [k |-> short_circuit_jump(exp.op),
                                  src |-> bool_dst, label |-> label] >>
        r        == ExpGenerateTac(exp.r, body1, l.sc)
        body2    == r.body \o << TacBinary("NotEqual", r.val, Constant(0), dst),
                                 TacCopy(bool_dst, dst) >>
    IN Gen(dst, body2,
           r.sc \cup {[op |-> exp.op, jump |-> n + 3, rstart |-> n + 4,
                       rend |-> Len(r.body) + 1, label |-> n + 2,
                       lval |-> l.val, rval |-> r.val, dst |-> dst,
                       bool_dst |-> bool_dst]})

ShortCircuit(exp, body, sc) ==
    LET l        == ExpGenerateTac(exp.l, body, sc)
        n        == Len(l.body)
        dst      == Identifier(s_tmp \o Dec(n))
        label    == Identifier(s_label \o Dec(n))
        bool_dst == Identifier(s_tmp \o Dec(n + 1))
        body1    == l.body \o << TacBinary("NotEqual", l.val, Constant(0), bool_dst),
                                 TacCopy(bool_dst, dst),
                                 [k |-> short_circuit_jump(exp.op),
                                  src |-> bool_dst, label |-> label] >>
        r        == ExpGenerateTac(exp.r, body1, l.sc)
        body2    == r.body \o << TacBinary("NotEqual", r.val, Constant(0), dst),
                                 Label(label) >>
    IN Gen(dst, body2,
           r.sc \cup {[op |-> exp.op, jump |-> n + 3, rstart |-> n + 4,
                       rend |-> Len(r.body) + 1, label |-> Len(body2),
                       lval |-> l.val, rval |-> r.val, dst |-> dst,
                       bool_dst |-> bool_dst]})

FactorGenerateTac(factor, body, sc) ==
    CASE factor.k = "Int" -> Gen(Constant(factor.v), body, sc)
      [] factor.k = "Unary" ->
           LET g   == FactorGenerateTac(factor.f, body, sc)
               dst == Identifier(s_tmp \o Dec(Len(g.body)))
           IN Gen(dst,
                  Append(g.body, TacUnary(UnaryOperatorFrom(factor.op), g.val, dst)),
                  g.sc)
      [] factor.k = "Exp" -> ExpGenerateTac(factor.e, body, sc)

ExpGenerateTac(exp, body, sc) ==
    CASE exp.k = "Factor" -> FactorGenerateTac(exp.f, body, sc)
      [] exp.k = "Binary" ->
           IF exp.op \in {"LogicalAnd", "LogicalOr"} THEN ShortCircuit(exp, body, sc)
           ELSE LET l   == ExpGenerateTac(exp.l, body, sc)
                    r   == ExpGenerateTac(exp.r, l.body, l.sc)
                    dst == Identifier(s_tmp \o Dec(Len(r.body)))
                IN Gen(dst,
                       Append(r.body, TacBinary(BinaryOperatorFrom(exp.op),
                                                l.val, r.val, dst)),
                       r.sc)
      [] exp.k = "Var" -> Gen(Identifier(exp.name), body, sc)
      [] exp.k = "Assignment" ->
           LET r == ExpGenerateTac(exp.r, body, sc)
               l == ExpGenerateTac(exp.l, r.body, r.sc)
           IN Gen(l.val, Append(l.body, TacCopy(r.val, l.val)), l.sc)

\* variant: the Copy of an initializer built with its operands exchanged
DeclarationGenerateTac_swapped(decl, body, sc) ==
    IF decl.init.k = "Some"
    THEN LET g == ExpGenerateTac(decl.init.e, body, sc) IN
         Gen(None, Append(g.body, TacCopy(Identifier(decl.name), g.val)), g.sc)
    ELSE Gen(None, body, sc)

DeclarationGenerateTac(decl, body, sc) ==
    IF decl.init.k = "Some"
    THEN LET g == ExpGenerateTac(decl.init.e, body, sc) IN
         Gen(None, Append(g.body, TacCopy(g.val, Identifier(decl.name))), g.sc)
    ELSE Gen(None, body, sc)

StatementGenerateTac(stmt, body, sc) ==
    CASE stmt.k = "Return" ->
           LET g == ExpGenerateTac(stmt.e, body, sc) IN
           Gen(None, Append(g.body, TacReturn(g.val)), g.sc)
      [] stmt.k = "Expression" ->
           LET g == ExpGenerateTac(stmt.e, body, sc) IN Gen(None, g.body, g.sc)
      [] stmt.k = "Null" -> Gen(None, body, sc)

BlockItemGenerateTac(item, body, sc) ==
    IF item.k = "Declaration" THEN DeclarationGenerateTac(item, body, sc)
    ELSE StatementGenerateTac(item, body, sc)

\* -------------------------------------------- 32-bit signed arithmetic
\* Two's-complement operations on values of I32Min..I32Max; no intermediate
\* result leaves that range.
Bool(c) == IF c THEN 1 ELSE 0

WrapAdd(a, b) ==
    IF a >= 0 /\ b > I32Max - a THEN (a - I32Max - 1) + (b - I32Max - 1)
    ELSE IF a < 0 /\ b < I32Min - a THEN (a + I32Max + 1) + (b + I32Max + 1)
    ELSE a + b

WrapNeg(a) == IF a = I32Min THEN I32Min ELSE -a
Complement(a) == (-1) - a
WrapSub(a, b) == WrapAdd(WrapAdd(a, Complement(b)), 1)

\* a * b = (2a) * (b div 2) + a * (b mod 2), down to b = 0 or b = -1
RECURSIVE MulAcc(_, _, _)
MulAcc(a, b, acc) ==
    IF b = 0 THEN acc
    ELSE IF b = -1 THEN WrapAdd(acc, WrapNeg(a))
    ELSE MulAcc(WrapAdd(a, a), b \div 2, IF b % 2 = 1 THEN WrapAdd(acc, a) ELSE acc)

WrapMul(a, b) == MulAcc(a, b, 0)

RECURSIVE BitAnd(_, _), BitXor(_, _)
BitAnd(a, b) ==
    IF a = 0 \/ b = 0 THEN 0
    ELSE IF a = -1 THEN b
    ELSE IF b = -1 THEN a
    ELSE (2 * BitAnd(a \div 2, b \div 2)) + ((a % 2) * (b % 2))

BitXor(a, b) ==
    IF a = 0 THEN b
    ELSE IF b = 0 THEN a
    ELSE IF a = -1 THEN Complement(b)
    ELSE IF b = -1 THEN Complement(a)
    ELSE (2 * BitXor(a \div 2, b \div 2)) + (((a % 2) + (b % 2)) % 2)

BitOr(a, b) == Complement(BitAnd(Complement(a), Complement(b)))

\* sall / sarl: the count is used modulo 32
RECURSIVE ShlN(_, _), SarN(_, _)
ShlN(a, n) == IF n = 0 THEN a ELSE ShlN(WrapAdd(a, a), n - 1)
SarN(a, n) == IF n = 0 THEN a ELSE SarN(a \div 2, n - 1)

\* idivl: quotient truncated toward zero, remainder with the dividend's sign
RECURSIVE TruncDiv(_, _)
TruncDiv(a, b) ==
    IF b > 0
    THEN LET q == a \div b IN IF a < 0 /\ (a % b) # 0 THEN q + 1 ELSE q
    ELSE IF b = I32Min THEN Bool(a = I32Min)
    ELSE -TruncDiv(a, -b)
TruncRem(a, b) == a - (b * TruncDiv(a, b))

\* idivl raises #DE on a zero divisor and on I32Min / -1
DivTraps(a, b) == b = 0 \/ (a = I32Min /\ b = -1)

EvalUnary(op, a) ==
    CASE op = "Negate" -> WrapNeg(a)
      [] op = "Complement" -> Complement(a)
      [] op = "LogicalNot" -> Bool(a = 0)

EvalBinary(op, a, b) ==
    CASE op = "Add" -> WrapAdd(a, b)
      [] op = "Subtract" -> WrapSub(a, b)
      [] op = "Multiply" -> WrapMul(a, b)
      [] op = "Divide" -> TruncDiv(a, b)
      [] op = "Modulo" -> TruncRem(a, b)
      [] op = "Ampersand" -> BitAnd(a, b)
      [] op = "Pipe" -> BitOr(a, b)
      [] op = "Caret" -> BitXor(a, b)
      [] op = "ShiftLeft" -> ShlN(a, b % 32)
      [] op = "ShiftRight" -> SarN(a, b % 32)
      [] op = "Equal" -> Bool(a = b)
      [] op = "NotEqual" -> Bool(a # b)
      [] op = "GreaterThan" -> Bool(a > b)
      [] op = "GreaterThanOrEqual" -> Bool(a >= b)
      [] op = "LessThan" -> Bool(a < b)
      [] op = "LessThanOrEqual" -> Bool(a <= b)

\* operators the assembly builder has no translation for
InvalidOperator(op) == op \in {"LogicalAnd", "LogicalOr", "Assign"}

\* ------------------------------------------------- the token lists compiled
\* Tokens as Lex::next builds them ("main" and "void" are not in the
\* lexer's keyword set and come out as identifiers).
T_int    == Tok("KEYWORD", s_int)
T_return == Tok("KEYWORD", s_return)
T_main   == Tok("IDENTIFIER", s_main)
T_void   == Tok("IDENTIFIER", s_void)
LP       == Tok("OpenParen", <<"(">>)
RP       == Tok("CloseParen", <<")">>)
LB       == Tok("OpenBrace", <<"{">>)
RB       == Tok("CloseBrace", <<"}">>)
SEMI     == Tok("SEMICOLON", <<";">>)
ASSIGN   == Tok("Assignment", <<"=">>)
NEG      == Tok("NegationOp", <<"-">>)
TILDE    == Tok("TildeOp", <<"~">>)
NOT      == Tok("LogicalNot", <<"!">>)
K(n)     == Tok("CONSTANT", Dec(n))
Id(c)    == Tok("IDENTIFIER", <<c>>)

OpToken(op) ==
    CASE op = "Add" -> Tok("PLUS", <<"+">>)
      [] op = "Subtract" -> NEG
      [] op = "Multiply" -> Tok("STAR", <<"*">>)
      [] op = "Divide" -> Tok("SLASH", <<"/">>)
      [] op = "Modulo" -> Tok("MODULUS", <<"%">>)
      [] op = "LeftShift" -> Tok("LeftShift", <<"<", "<">>)
      [] op = "RightShift" -> Tok("RightShift", <<">", ">">>)
      [] op = "BitwiseAnd" -> Tok("AMPERSAND", <<"&">>)
      [] op = "BitwiseOr" -> Tok("PIPE", <<"|">>)
      [] op = "BitwiseXor" -> Tok("CARET", <<"^">>)
      [] op = "LogicalAnd" -> Tok("LogicalAnd", <<"&", "&">>)
      [] op = "LogicalOr" -> Tok("LogicalOr", <<"|", "|">>)
      [] op = "Equal" -> Tok("Equal", <<"=", "=">>)
      [] op = "NotEqual" -> Tok("NotEqual", <<"!", "=">>)
      [] op = "GreaterThan" -> Tok("GreaterThan", <<">">>)
      [] op = "LessThan" -> Tok("LessThan", <<"<">>)
      [] op = "GreaterThanOrEqual" -> Tok("GreaterThanOrEqual", <<">", "=">>)
      [] op = "LessThanOrEqual" -> Tok("LessThanOrEqual", <<"<", "=">>)
      [] op = "Assignment" -> ASSIGN

AND == OpToken("LogicalAnd")
OR  == OpToken("LogicalOr")
PLUS == OpToken("Add")

Header == <<T_int, T_main, LP, T_void, RP, LB>>
Prog(items) == Header \o items \o <<RB>>

Decl(c, n) == <<T_int, Id(c), ASSIGN, K(n), SEMI>>
Ret(e)     == <<T_return>> \o e \o <<SEMI>>
Paren(e)   == <<LP>> \o e \o <<RP>>

\* int a = 6; int b = 3; int c = 2; return a op1 b op2 c;
PrecProgram(op1, op2) ==
    Prog(Decl("a", 6) \o Decl("b", 3) \o Decl("c", 2)
         \o Ret(<<Id("a"), OpToken(op1), Id("b"), OpToken(op2), Id("c")>>))

PrecPrograms == { PrecProgram(op1, op2) : op1 \in BinaryOps, op2 \in BinaryOps }

\* return k1 op k2;  and  return u k1;
ConstPrograms ==
    { Prog(Ret(<<K(k1), OpToken(op), K(k2)>>))
      : k1 \in 0..MaxConst, k2 \in 0..MaxConst, op \in BinaryOps \ {"Assignment"} }
    \cup { Prog(Ret(<<u, K(k)>>)) : u \in {NEG, TILDE, NOT}, k \in 0..MaxConst }

\* programs cut short, and programs followed by one more token
BasePrograms ==
    { Prog(Ret(<<K(2)>>)),
      Prog(Decl("a", 1) \o <<Id("a"), ASSIGN, NEG>> \o Paren(<<K(1), PLUS, Id("a")>>)
           \o <<SEMI>> \o Ret(<<Id("a")>>)),
      Prog(<<T_int, Id("a"), SEMI, SEMI>>),
      Prog(<<>>) }

Prefixes(p) == { SubSeq(p, 1, n) : n \in 0..(Len(p) - 1) }

TruncatedPrograms == UNION { Prefixes(p) : p \in BasePrograms }

TrailingPrograms ==
    { p \o <<t>> : p \in BasePrograms, t \in {SEMI, RB, K(0), T_int, Id("a")} }

\* every sequence of block items, drawn from a few declarations and
\* statements, up to a bounded length
Items ==
    { <<T_int, Id("a"), SEMI>>,
      Decl("a", 1),
      <<T_int, Id("b"), ASSIGN, Id("a"), SEMI>>,
      <<T_int, Id("a"), ASSIGN, Id("a"), PLUS, K(1), SEMI>>,
      <<Id("a"), ASSIGN, K(2), SEMI>>,
      <<Id("b"), ASSIGN, Id("a"), SEMI>>,
      Ret(<<Id("a")>>),
      Ret(<<Id("b")>>),
      <<SEMI>> }

MaxItems == 2

RECURSIVE ItemSeqs(_)
ItemSeqs(n) ==
    IF n = 0 THEN {<<>>}
    ELSE LET shorter == ItemSeqs(n - 1) IN
         shorter \cup { s \o i : s \in shorter, i \in Items }

ItemPrograms == { Prog(s) : s \in ItemSeqs(MaxItems) }

\* assignments to something that is or is not a variable, at several depths
Targets ==
    { <<Id("a")>>, Paren(<<Id("a")>>), Paren(Paren(<<Id("a")>>)),
      <<K(1)>>, Paren(<<K(1)>>), <<NEG, Id("a")>>, <<NOT, K(1)>>,
      <<Id("a"), PLUS, K(1)>>, Paren(<<Id("a"), PLUS, K(1)>>),
      Paren(<<Id("a"), ASSIGN, K(1)>>), <<Id("u")>>, <<K(1), PLUS, Id("u")>> }

Sources == { <<K(2)>>, <<Id("a")>>, <<Id("u")>> }

Contexts(e) ==
    { e \o <<SEMI>>,
      Ret(e),
      Ret(<<K(1), PLUS>> \o Paren(e)),
      Ret(<<NEG, TILDE>> \o Paren(e)),
      <<Id("a"), ASSIGN>> \o e \o <<SEMI>>,
      <<T_int, Id("b"), ASSIGN>> \o Paren(Paren(e)) \o <<SEMI>> }

TargetPrograms ==
    { Prog(Decl("a", 1) \o c)
      : c \in UNION { Contexts(t \o <<ASSIGN>> \o s) : t \in Targets, s \in Sources } }

\* int a = ka; int b = 0; return L op R;   for op in {&&, ||}
SCLeft ==
    { <<K(k)>> : k \in 0..MaxConst }
    \cup { <<Id("a")>>, <<NOT, Id("a")>>, Paren(<<Id("a"), ASSIGN, K(0)>>),
           <<Id("a"), AND, K(1)>>, Paren(<<Id("a"), OR, Id("b")>>),
           <<Id("a"), PLUS, K(1)>> }

SCRight ==
    { <<K(k)>> : k \in 0..MaxConst }
    \cup { <<Id("b")>>, Paren(<<Id("b"), ASSIGN, K(1)>>), <<NEG, Id("a")>>,
           Paren(<<Id("b"), ASSIGN, K(2)>>) \o <<AND, Id("a")>>,
           Paren(<<Id("a"), OR>> \o Paren(<<Id("b"), ASSIGN, K(1)>>)) }

SCPrograms ==
    { Prog(Decl("a", ka) \o Decl("b", 0) \o Ret(l \o <<op>> \o r))
      : ka \in {0, 1}, l \in SCLeft, r \in SCRight, op \in {AND, OR} }

\* a few complete programs, with the value each is expected to return
ReturnPrograms ==
    { Prog(Ret(<<K(2)>>)),
      Prog(Ret(<<K(1), PLUS, K(2), OpToken("Multiply"), K(3)>>)),
      Prog(Ret(<<NEG>> \o Paren(<<TILDE, K(5)>>))),
      Prog(Decl("a", 3) \o Decl("b", 4)
           \o Ret(<<Id("a"), OpToken("Multiply"), Id("b"), PLUS, K(1)>>)),
      Prog(Decl("x", 5) \o <<Id("x"), ASSIGN, Id("x"), PLUS, K(10), SEMI>>
           \o Ret(<<Id("x")>>)),
      Prog(Ret(Paren(<<K(1), OpToken("LessThan"), K(2)>>) \o <<AND>>
               \o Paren(<<K(3), OpToken("Equal"), K(3)>>))),
      Prog(Ret(<<K(10), OpToken("Divide"), K(3)>>)),
      Prog(Ret(<<K(10), OpToken("Modulo"), K(3)>>)),
      Prog(Ret(Paren(<<K(1), OpToken("LeftShift"), K(3)>>) \o <<OpToken("BitwiseOr"), K(1)>>)),
      Prog(Ret(<<K(1), OpToken("BitwiseAnd"), K(2), OpToken("Equal"), K(2)>>)) }

\* int a = 1; return a op (a = k);   and   return (a = k) op a;
SeqPointPrograms ==
    { Prog(Decl("a", 1) \o Ret(e))
      : e \in UNION { { <<Id("a"), OpToken(op)>> \o Paren(<<Id("a"), ASSIGN, K(k)>>),
                        Paren(<<Id("a"), ASSIGN, K(k)>>) \o <<OpToken(op), Id("a")>> }
                      : op \in {"Add", "Subtract", "Multiply", "LessThan"},
                        k \in {0, 5} } }

\* return <digits>;   with the i32 the digits denote, or -1 when they
\* denote a value over i32::MAX
LargeConstants ==
    { <<<<"7">>, 7>>, <<<<"0", "7">>, 7>>, <<<<"0", "0", "0">>, 0>>,
      <<<<"2", "1", "4", "7", "4", "8", "3", "6", "4", "7">>, I32Max>>,
      <<<<"0", "2", "1", "4", "7", "4", "8", "3", "6", "4", "7">>, I32Max>>,
      <<<<"2", "1", "4", "7", "4", "8", "3", "6", "4", "8">>, -1>>,
      <<<<"2", "1", "4", "7", "4", "8", "3", "6", "5", "0">>, -1>>,
      <<<<"4", "2", "9", "4", "9", "6", "7", "2", "9", "6">>, -1>>,
      <<<<"9", "9", "9", "9", "9", "9", "9", "9", "9", "9", "9", "9">>, -1>> }

LargeConstantPrograms ==
    { Prog(Ret(<<Tok("CONSTANT", c[1])>>)) : c \in LargeConstants }
    \cup { Prog(<<T_int, Id("a"), ASSIGN, NEG, Tok("CONSTANT", c[1]), SEMI>>)
           : c \in LargeConstants }

\* int a = ea; int b = eb; return L cmp R;   L and R each a variable or a
\* constant, the values on both sides of zero and at both ends of the i32s
BigK == Tok("CONSTANT", <<"2", "1", "4", "7", "4", "8", "3", "6", "4", "7">>)

DeclE(c, e) == <<T_int, Id(c), ASSIGN>> \o e \o <<SEMI>>

CmpOps == {"Equal", "NotEqual", "LessThan", "GreaterThan",
           "LessThanOrEqual", "GreaterThanOrEqual"}

CmpInits  == { <<K(2)>>, <<NEG, K(2)>>, <<TILDE, BigK>>, <<BigK>> }
CmpConsts == { <<K(0)>>, <<K(2)>>, <<BigK>> }

CmpPrograms ==
    { Prog(DeclE("a", ea) \o DeclE("b", eb) \o Ret(<<Id("a"), OpToken(op), Id("b")>>))
      : ea \in CmpInits, eb \in CmpInits, op \in CmpOps }
    \cup { Prog(DeclE("a", ea) \o Ret(<<Id("a"), OpToken(op)>> \o k))
           : ea \in CmpInits, k \in CmpConsts, op \in CmpOps }
    \cup { Prog(DeclE("b", eb) \o Ret(k \o <<OpToken(op), Id("b")>>))
           : eb \in CmpInits, k \in CmpConsts, op \in CmpOps }
    \cup { Prog(Ret(k1 \o <<OpToken(op)>> \o k2))
           : k1 \in CmpConsts, k2 \in CmpConsts, op \in CmpOps }

\* the operators lowered through a register: / % << >> *
ArithOps == {"Divide", "Modulo", "LeftShift", "RightShift", "Multiply"}

ArithLeft  == { <<K(7)>>, <<NEG, K(7)>>, <<TILDE, BigK>> }
ArithRight == { <<K(0)>>, <<K(2)>>, <<NEG, K(1)>>, <<K(33)>> }

ArithPrograms ==
    { Prog(DeclE("a", ea) \o DeclE("b", eb) \o Ret(<<Id("a"), OpToken(op), Id("b")>>))
      : ea \in ArithLeft, eb \in ArithRight, op \in ArithOps }
    \cup { Prog(DeclE("a", ea) \o Ret(<<Id("a"), OpToken(op), K(k)>>))
           : ea \in ArithLeft, k \in {0, 2}, op \in ArithOps }
    \cup { Prog(DeclE("b", eb) \o Ret(<<K(7), OpToken(op), Id("b")>>))
           : eb \in ArithRight, op \in ArithOps }

Programs == PrecPrograms \cup ConstPrograms \cup TruncatedPrograms
            \cup TrailingPrograms \cup ItemPrograms \cup TargetPrograms
            \cup SCPrograms \cup ReturnPrograms \cup SeqPointPrograms
            \cup LargeConstantPrograms \cup CmpPrograms \cup ArithPrograms

\* ------------------------------------------------------------ source texts
\* the lexemes of a token list, a space after each
RECURSIVE Text(_)
Text(toks) == IF toks = <<>> THEN <<>>
              ELSE Head(toks).value \o <<" ">> \o Text(Tail(toks))

ProgramTexts == { Text(p) : p \in Programs }

\* a run of digits and what follows it, alone and after `return `
DigitRuns == { <<"1">>, <<"1", "2">>, <<"0", "7">> }
Followers == { <<>>, <<"f", "o", "o">>, <<"X">>, <<";">>, <<" ", "x">>, <<"_">>,
               <<"+", "1">>, <<"\n">>, <<"1", "a">> }
NumberTexts ==
    { pre \o d \o f : pre \in {<<>>, Text(<<T_return>>)}, d \in DigitRuns,
                       f \in Followers }

\* words of letters, digits and underscores, and what follows them
Words == { <<"a">>, <<"a", "1">>, <<"a", "_", "b">>, <<"_", "x">>, <<"x", "_">>,
           <<"_">>, <<"_", "1">>, <<"i", "n", "t", "1">>, <<"i", "n", "t", "_">>,
           <<"r", "e", "t", "u", "r", "n", "x">>, <<"M", "a", "i", "n">>,
           <<"v", "9">>, <<"i", "f", "f">> }
WordTexts ==
    { pre \o w \o f : pre \in {<<>>, <<";">>, <<" ">>}, w \in Words,
                       f \in {<<>>, <<";">>, <<" ", "b">>, <<"(">>, <<"-", "c">>} }

\* the reserved words of the language, alone and as the name of a variable
ReservedWords ==
    { s_int, s_void, s_return, <<"i", "f">>, <<"e", "l", "s", "e">>,
      <<"w", "h", "i", "l", "e">>, <<"f", "o", "r">> }
DeclarationOf(w) ==
    Text(Header) \o s_int \o <<" ">> \o w \o <<" ", "=", " ", "1", ";", " ">>
                 \o s_return \o <<" ">> \o w \o <<";", " ", "}">>
ReservedTexts ==
    ReservedWords \cup { DeclarationOf(w) : w \in ReservedWords \cup {<<"x">>} }
                  \cup { Text(Header) \o s_int \o <<" ">> \o w \o <<";", "}">>
                         : w \in ReservedWords }

\* block comments that end of input cuts short, block and line comments
\* that are closed, and the places of a program they are written at
OpenComments ==
    { <<"/", "*">>, <<"/", "*", " ", "x">>, <<"/", "*", "*">>, <<"/", "*", "/">>,
      <<"/", "*", " ", "*", " ", "/">>, <<"/", "*", "\n", "x", "*">>,
      <<"/", "*", " ", "}">> }
ClosedComments ==
    { <<"/", "*", "*", "/">>, <<"/", "*", " ", "x", " ", "*", "/">>,
      <<"/", "*", "*", "*", "/">>, <<"/", "*", "/", "*", "/">>,
      <<"/", "/", " ", "x", "\n">>, <<"/", "/", "/", "*", "\n">> }
CommentTexts ==
    { Text(Header) \o c \o Text(Ret(<<K(2)>>)) \o <<"}">>
      : c \in OpenComments \cup ClosedComments }
    \cup { Text(Prog(Ret(<<K(2)>>))) \o c : c \in OpenComments \cup ClosedComments }
    \cup OpenComments \cup ClosedComments

\* a `#` line written at every token boundary of a program
TagLine == <<"#", "x", "\n">>
TaggedProgram ==
    Prog(Decl("a", 1) \o Ret(<<Id("a"), PLUS, K(2)>>))
TagTexts ==
    { Text(SubSeq(TaggedProgram, 1, n)) \o TagLine
         \o Text(SubSeq(TaggedProgram, n + 1, Len(TaggedProgram)))
      : n \in 0..Len(TaggedProgram) }
    \cup { Text(Prog(Ret(<<Tok("CONSTANT", c[1])>>))) \o TagLine : c \in LargeConstants }
    \cup { TagLine, <<"#">>, <<"#", "#">>, Text(Header) \o <<"#", " ", "}">> }

SourceTexts == ProgramTexts \cup NumberTexts \cup WordTexts \cup ReservedTexts
               \cup CommentTexts \cup TagTexts

\* ------------------------------------------------------------ the pipeline
VARIABLES
    input,          \* the token list handed to the parser
    source,         \* the source text
    hash_seed,      \* the RandomState of this process's HashMaps and HashSet
    run,            \* 1 for the first run of the driver on the source, 2 for the second
    first_run,          \* what the first run produced
    pos,            \* the lexer's position in it
    entry,          \* "main" (the driver) or "parse_and_resolve_program"
    stage,          \* where the pipeline is
    tokens,         \* the parser's token buffer
    block_items,    \* the block items parsed so far
    error,          \* the message of the Err returned, "none" if none
    symbol_table,   \* the resolver's map from name to unique name
    resolved_items, \* the block items resolved so far
    program,        \* the block items handed to the TAC generator
    tidx,           \* the number of block items lowered
    body,           \* the TAC instruction list
    sc,             \* bookkeeping on the && and || lowered (see Gen)
    tpc,            \* position of the next TAC instruction to execute
    env,            \* the values of the identifiers written so far
    garbage,        \* the value found in a slot that was never written
    executed,       \* positions of the TAC instructions executed
    asm,            \* the assembly instruction list
    stack_size,     \* what replace_pseudo returned
    assembly_code,  \* the assembly text, a sequence of lines
    files,          \* the output files present: "s" and "binary"
    status,         \* the exit status of the compiler process, -1 while it runs
    exit,           \* the value returned by the compiled main
    cpu             \* the processor when the compiled program ended

vars == <<source, hash_seed, run, first_run, pos, assembly_code, files, status, input, entry, stage, tokens, block_items, error, symbol_table,
          resolved_items, program, tidx, body, sc, tpc, env, garbage,
          executed, asm, stack_size, exit, cpu>>

parseVars   == <<tokens, block_items>>
resolveVars == <<symbol_table, resolved_items>>
tacVars     == <<program, tidx, body, sc>>
asmVars     == <<asm, stack_size>>
lexVars     == <<source, pos>>
runVars     == <<hash_seed, run, first_run>>
outVars     == <<assembly_code, files>>
execVars    == <<tpc, env, garbage, executed, exit, cpu>>

Entries == {"main", "parse_and_resolve_program"}
GarbageValues == {0, 7}

\* the processor before and at the start of the compiled program
MachineRegisters == {"AX", "DX", "R10", "R11", "CX"}

Boot(g) ==
    [pc |-> 1, regs |-> [r \in MachineRegisters |-> g], mem |-> EmptyTable, g |-> g,
     flags |-> [known |-> FALSE, zf |-> FALSE, sf |-> FALSE, of |-> FALSE],
     halt |-> "run", sets |-> <<>>]

Off == [Boot(0) EXCEPT !.halt = "off"]

Running_status == -1

\* variant: the lexer's error exit made with status 0
exit_status_lex_zero(e, st) ==
    CASE st = "lex_error" -> 0
      [] st = "parse_error" /\ e = "main" -> 1
      [] st = "asm_rejected" -> 1
      [] st = "panic" -> 101
      [] st \in {"exited", "trap"} -> 0
      [] OTHER -> Running_status

\* process::exit(1) of get_tokens and of main, the abort of a panic, and the
\* return of main after the compiled program ran
exit_status(e, st) ==
    CASE st = "lex_error" -> 1
      [] st = "parse_error" /\ e = "main" -> 1
      [] st = "asm_rejected" -> 1
      [] st = "panic" -> 101
      [] st \in {"exited", "trap"} -> 0
      [] OTHER -> Running_status

HashSeeds == {0, 1}

\* what a run has produced when the assembly text is written
Outputs ==
    [seed |-> hash_seed, tokens |-> input, ast |-> block_items, tac |-> body,
     asm |-> asm, stack_size |-> stack_size, text |-> assembly_code]

NoOutputs ==
    [seed |-> 0, tokens |-> <<>>, ast |-> <<>>, tac |-> <<>>, asm |-> <<>>,
     stack_size |-> 0, text |-> <<>>]

Init ==
    /\ source \in SourceTexts
    /\ hash_seed \in HashSeeds
    /\ run = 1
    /\ first_run = NoOutputs
    /\ pos = 0
    /\ input = <<>>
    /\ entry \in Entries
    /\ stage = "lex"
    /\ tokens = <<>>
    /\ assembly_code = <<>>
    /\ files = {}
    /\ status = Running_status
    /\ block_items = <<>>
    /\ error = "none"
    /\ symbol_table = EmptyTable
    /\ resolved_items = <<>>
    /\ program = <<>>
    /\ tidx = 0
    /\ body = <<>>
    /\ sc = {}
    /\ tpc = 1
    /\ env = EmptyTable
    /\ garbage = 0
    /\ executed = {}
    /\ asm = <<>>
    /\ stack_size = 0
    /\ exit = 0
    /\ cpu = Off

\* get_tokens: one turn of its loop, a call of next
LexNext ==
    /\ stage = "lex"
    /\ pos < Len(source)
    /\ LET r == next(source, pos) IN
         /\ pos' = r.pos
         /\ CASE r.st = "Some" ->
                   /\ tokens' = Append(tokens, r.token)
                   /\ UNCHANGED <<stage, error, input>>
              [] r.st = "None" ->
                   /\ tokens' = retain(tokens)
                   /\ input' = retain(tokens)
                   /\ stage' = "parse"
                   /\ UNCHANGED error
              [] r.st = "Err" ->
                   /\ tokens' = <<>>
                   /\ error' = r.err
                   /\ stage' = "lex_error"
                   /\ UNCHANGED input
    /\ UNCHANGED <<runVars, source, entry, block_items, resolveVars, tacVars, asmVars, execVars, outVars>>
    /\ status' = exit_status(entry, stage')

\* get_tokens returns at the end of the text; main drops the comment tokens
LexDone ==
    /\ stage = "lex"
    /\ pos >= Len(source)
    /\ tokens' = retain(tokens)
    /\ input' = retain(tokens)
    /\ stage' = "parse"
    /\ UNCHANGED <<runVars, lexVars, entry, block_items, error, resolveVars, tacVars, asmVars,
                   execVars, outVars>>
    /\ status' = exit_status(entry, stage')

\* parse_program's emptiness test, then `int main ( void ) {` :
\* each token is removed from the buffer and then checked
HeaderChecks ==
    << [msg |-> "Expected int keyword"],  [msg |-> "Expected main keyword"],
       [msg |-> "Expected token type"],   [msg |-> "Expected void keyword"],
       [msg |-> "Expected token type"],   [msg |-> "Expected token type"] >>

HeaderCheck(i, token) ==
    CASE i = 1 -> expect_int_keyword(token)
      [] i = 2 -> expect_main_keyword(token)
      [] i = 3 -> expect_token_type(token, "OpenParen")
      [] i = 4 -> expect_void_keyword(token)
      [] i = 5 -> expect_token_type(token, "CloseParen")
      [] i = 6 -> expect_token_type(token, "OpenBrace")

RECURSIVE parse_function_header(_, _)
parse_function_header(toks, i) ==
    IF i > Len(HeaderChecks) THEN Ok(None, toks)
    ELSE IF toks = <<>> THEN Err(EOFMsg, toks)
    ELSE IF ~HeaderCheck(i, Head(toks)) THEN Err(HeaderChecks[i].msg, Tail(toks))
    ELSE parse_function_header(Tail(toks), i + 1)

ParseHeader ==
    /\ stage = "parse"
    /\ LET r == IF tokens = <<>> THEN Err("Empty program", tokens)
                ELSE parse_function_header(tokens, 1)
       IN /\ tokens' = r.rest
          /\ stage' = IF r.st = "ok" THEN "body" ELSE "parse_error"
          /\ error' = r.err
    /\ UNCHANGED <<runVars, lexVars, outVars, input, entry, block_items, resolveVars, tacVars, asmVars, execVars>>
    /\ status' = exit_status(entry, stage')

\* one evaluation of `while tokens[0].token_type != CloseBrace` that enters
\* the loop body (or panics on the index)
ParseBlockItem ==
    /\ stage = "body"
    /\ IF tokens = <<>> THEN TRUE ELSE Head(tokens).token_type # "CloseBrace"
    /\ LET r == parse_block_items(PrecTable, tokens) IN
         /\ tokens' = r.rest
         /\ error' = r.err
         /\ stage' = CASE r.st = "ok" -> "body"
                       [] r.st = "err" -> "parse_error"
                       [] r.st = "panic" -> "panic"
         /\ block_items' = IF r.st = "ok" THEN Append(block_items, r.val)
                           ELSE block_items
    /\ UNCHANGED <<runVars, lexVars, outVars, input, entry, resolveVars, tacVars, asmVars, execVars>>
    /\ status' = exit_status(entry, stage')

\* variant: the closing brace is removed and checked, and what follows it
\* is not looked at
parse_function_close_unchecked(toks) ==
    IF toks = <<>> THEN Err(EOFMsg, toks)
    ELSE IF ~expect_token_type(Head(toks), "CloseBrace")
         THEN Err("Expected token type", Tail(toks))
    ELSE Ok(None, Tail(toks))

\* after the loop: the closing brace is removed and checked, and the
\* buffer must then be empty
parse_function_close(toks) ==
    IF toks = <<>> THEN Err(EOFMsg, toks)
    ELSE IF ~expect_token_type(Head(toks), "CloseBrace")
         THEN Err("Expected token type", Tail(toks))
    ELSE IF Tail(toks) # <<>> THEN Err("Unexpected token", Tail(toks))
    ELSE Ok(None, Tail(toks))

\* the loop condition is false; main() goes on to generate_tac with the
\* parsed program, parse_and_resolve_program to resolve_program
ParseClose ==
    /\ stage = "body"
    /\ IF tokens = <<>> THEN FALSE ELSE Head(tokens).token_type = "CloseBrace"
    /\ LET r == parse_function_close(tokens) IN
         /\ tokens' = r.rest
         /\ error' = r.err
         /\ IF r.st # "ok"
            THEN stage' = "parse_error" /\ UNCHANGED program
            ELSE IF entry = "main"
                 THEN stage' = "tac" /\ program' = block_items
                 ELSE stage' = "resolve" /\ UNCHANGED program
    /\ UNCHANGED <<runVars, lexVars, outVars, input, entry, block_items, resolveVars, tidx, body, sc, asmVars, execVars>>
    /\ status' = exit_status(entry, stage')

\* one iteration of the loop of resolve_function_declaration
ResolveBlockItem ==
    /\ stage = "resolve"
    /\ Len(resolved_items) < Len(block_items)
    /\ LET r == resolve_block_item(block_items[Len(resolved_items) + 1], symbol_table)
       IN /\ symbol_table' = r.table
          /\ error' = r.res.err
          /\ IF r.res.st = "ok"
             THEN /\ resolved_items' = Append(resolved_items, r.res.val)
                  /\ stage' = "resolve"
             ELSE /\ stage' = "resolve_error"
                  /\ UNCHANGED resolved_items
    /\ UNCHANGED <<runVars, lexVars, outVars, input, entry, parseVars, tacVars, asmVars, execVars>>
    /\ status' = exit_status(entry, stage')

ResolveDone ==
    /\ stage = "resolve"
    /\ Len(resolved_items) = Len(block_items)
    /\ stage' = "tac"
    /\ program' = resolved_items
    /\ UNCHANGED <<runVars, lexVars, outVars, input, entry, parseVars, error, resolveVars, tidx, body, sc, asmVars, execVars>>
    /\ status' = exit_status(entry, stage')

\* one iteration of the loop of FunctionDeclaration::generate_tac
GenerateTacItem ==
    /\ stage = "tac"
    /\ tidx < Len(program)
    /\ LET g == BlockItemGenerateTac(program[tidx + 1], body, sc) IN
         /\ body' = g.body
         /\ sc' = g.sc
    /\ tidx' = tidx + 1
    /\ UNCHANGED <<runVars, lexVars, outVars, input, entry, stage, parseVars, error, resolveVars, program, asmVars, execVars>>
    /\ status' = exit_status(entry, stage')

\* variant: only the last instruction is looked at
HasReturn_last(b) == b # <<>> /\ b[Len(b)].k = "Return"

HasReturn(b) == \E i \in 1..Len(b) : b[i].k = "Return"

\* the function is always main here: the parser accepts no other name
TacEpilogue ==
    /\ stage = "tac"
    /\ tidx = Len(program)
    /\ body' = IF ~HasReturn(body) THEN Append(body, TacReturn(Constant(0))) ELSE body
    /\ stage' = "assemble"
    /\ UNCHANGED <<runVars, lexVars, outVars, input, entry, parseVars, error, resolveVars, program, tidx, sc, asmVars, execVars>>
    /\ status' = exit_status(entry, stage')

\* ------------------------------------------------ running the emitted code
\* The meaning of a TAC instruction is the meaning of the machine code the
\* assembly builder translates it to.
LabelPositions(b, label) == { i \in 1..Len(b) : b[i].k = "Label" /\ b[i].label = label }

IsJump(instr) == instr.k \in {"Jump", "JumpIfZero", "JumpIfNotZero"}
HasDst(instr) == instr.k \in {"Unary", "Binary", "Copy"}

\* ------------------------------------------------------- assembly (builder)
Imm(v)         == [k |-> "Imm", v |-> v]
Register(reg)  == [k |-> "Register", reg |-> reg]
Pseudo(name)   == [k |-> "Pseudo", name |-> name]
Stack(offset)  == [k |-> "Stack", offset |-> offset]

Mov(src, dst)           == [k |-> "Mov", src |-> src, dst |-> dst]
AsmUnary(op, dst)       == [k |-> "Unary", op |-> op, dst |-> dst]
AsmBinary(op, src, dst) == [k |-> "Binary", op |-> op, src |-> src, dst |-> dst]
Cmp(src, dst)           == [k |-> "Cmp", src |-> src, dst |-> dst]
Idiv(operand)           == [k |-> "Idiv", operand |-> operand]
Cdq                     == [k |-> "Cdq"]
Jmp(label)              == [k |-> "Jmp", label |-> label]
JmpCC(code, label)      == [k |-> "JmpCC", code |-> code, label |-> label]
SetCC(code, dst)        == [k |-> "SetCC", code |-> code, dst |-> dst]
AsmLabel(label)         == [k |-> "Label", label |-> label]
AllocateStack(n)        == [k |-> "AllocateStack", n |-> n]
AsmRet                  == [k |-> "Ret"]

\* impl From<Val> for Operand
OperandFrom(val) ==
    IF val.k = "Constant" THEN Imm(val.v) ELSE Pseudo(val.name)

\* impl From<TacUnaryOperator> for UnaryOperator
AsmUnaryOperatorFrom(op) ==
    CASE op = "Negate" -> "Neg"
      [] op = "Complement" -> "Not"
      [] op = "LogicalNot" -> "LogicalNot"

\* the inner match of the `_` arm of Binary; the other operators panic
AsmBinaryOperatorFrom(op) ==
    CASE op = "Add" -> "Add"
      [] op = "Subtract" -> "Sub"
      [] op = "Multiply" -> "Mul"
      [] op \in {"Ampersand", "Pipe", "Caret", "ShiftLeft", "ShiftRight"} -> op

CondCode(op) ==
    CASE op = "GreaterThan" -> "G"
      [] op = "GreaterThanOrEqual" -> "GE"
      [] op = "LessThan" -> "L"
      [] op = "LessThanOrEqual" -> "LE"
      [] op = "Equal" -> "E"
      [] op = "NotEqual" -> "NE"

to_assembly_instructions(instr) ==
    CASE instr.k = "Return" ->
           << Mov(OperandFrom(instr.val), Register("AX")), AsmRet >>
      [] instr.k = "Unary" ->
           IF instr.operator = "LogicalNot"
           THEN << Cmp(Imm(0), OperandFrom(instr.src)),
                   Mov(Imm(0), OperandFrom(instr.dst)),
                   SetCC("E", OperandFrom(instr.dst)) >>
           ELSE << Mov(OperandFrom(instr.src), OperandFrom(instr.dst)),
                   AsmUnary(AsmUnaryOperatorFrom(instr.operator), OperandFrom(instr.dst)) >>
      [] instr.k = "Binary" ->
           IF instr.operator \in {"Divide", "Modulo"}
           THEN << Mov(OperandFrom(instr.src1), Register("AX")),
                   Cdq,
                   Idiv(OperandFrom(instr.src2)),
                   Mov(Register(IF instr.operator = "Divide" THEN "AX" ELSE "DX"),
                       OperandFrom(instr.dst)) >>
           ELSE IF instr.operator \in {"GreaterThan", "GreaterThanOrEqual", "LessThan",
                                       "LessThanOrEqual", "Equal", "NotEqual"}
           THEN << Cmp(OperandFrom(instr.src2), OperandFrom(instr.src1)),
                   Mov(Imm(0), OperandFrom(instr.dst)),
                   SetCC(CondCode(instr.operator), OperandFrom(instr.dst)) >>
           ELSE << Mov(OperandFrom(instr.src1), OperandFrom(instr.dst)),
                   AsmBinary(AsmBinaryOperatorFrom(instr.operator),
                             OperandFrom(instr.src2), OperandFrom(instr.dst)) >>
      [] instr.k = "JumpIfZero" ->
           << Cmp(OperandFrom(instr.src), Imm(0)), JmpCC("E", instr.label.name) >>
      [] instr.k = "JumpIfNotZero" ->
           << Cmp(OperandFrom(instr.src), Imm(0)), JmpCC("NE", instr.label.name) >>
      [] instr.k = "Jump"  -> << Jmp(instr.label.name) >>
      [] instr.k = "Label" -> << AsmLabel(instr.label.name) >>
      [] instr.k = "Copy"  ->
           << Mov(OperandFrom(instr.src), OperandFrom(instr.dst)) >>

\* flat_map over the body
RECURSIVE to_assembly_function(_)
to_assembly_function(b) ==
    IF b = <<>> THEN <<>>
    ELSE to_assembly_instructions(Head(b)) \o to_assembly_function(Tail(b))

\* ---------------------------------------------- assembly (pseudo registers)
Replaced(x, pseudo_map, counter) ==
    [x |-> x, pseudo_map |-> pseudo_map, counter |-> counter]

\* variant: a new slot at every occurrence, the map never consulted
replace_operand_always_new(operand, pseudo_map, counter) ==
    IF operand.k = "Pseudo"
    THEN Replaced(Stack(counter),
                  (operand.name :> Stack(counter)) @@ pseudo_map, counter - 4)
    ELSE Replaced(operand, pseudo_map, counter)

replace_operand(operand, pseudo_map, counter) ==
    IF operand.k = "Pseudo"
    THEN IF operand.name \in DOMAIN pseudo_map
         THEN Replaced(pseudo_map[operand.name], pseudo_map, counter)
         ELSE Replaced(Stack(counter),
                       (operand.name :> Stack(counter)) @@ pseudo_map, counter - 4)
    ELSE Replaced(operand, pseudo_map, counter)

\* one iteration of replace_pseudo's loop
replace_pseudo_instr(instr, pseudo_map, counter) ==
    CASE instr.k \in {"Mov", "Binary", "Cmp"} ->
           LET new_src == replace_operand(instr.src, pseudo_map, counter)
               new_dst == replace_operand(instr.dst, new_src.pseudo_map, new_src.counter)
           IN Replaced([instr EXCEPT !.src = new_src.x, !.dst = new_dst.x],
                       new_dst.pseudo_map, new_dst.counter)
      [] instr.k \in {"Unary", "SetCC"} ->
           LET new_dst == replace_operand(instr.dst, pseudo_map, counter)
           IN Replaced([instr EXCEPT !.dst = new_dst.x],
                       new_dst.pseudo_map, new_dst.counter)
      [] instr.k = "Idiv" ->
           LET new_op == replace_operand(instr.operand, pseudo_map, counter)
           IN Replaced([instr EXCEPT !.operand = new_op.x],
                       new_op.pseudo_map, new_op.counter)
      [] OTHER -> Replaced(instr, pseudo_map, counter)

RECURSIVE replace_pseudo_loop(_, _, _, _)
replace_pseudo_loop(instructions, new_instructions, pseudo_map, counter) ==
    IF instructions = <<>>
    THEN [instructions |-> new_instructions, stack_size |-> -counter]
    ELSE LET r == replace_pseudo_instr(Head(instructions), pseudo_map, counter)
         IN replace_pseudo_loop(Tail(instructions), Append(new_instructions, r.x),
                                r.pseudo_map, r.counter)

\* variant: the slots handed out while iterating over the map, in the order
\* its RandomState gives
replace_pseudo_iterating(instructions) ==
    LET r == replace_pseudo_loop(instructions, <<>>, EmptyTable, -4)
        Slot(operand) ==
            IF operand.k = "Stack" /\ hash_seed = 1
            THEN Stack(-r.stack_size - operand.offset)
            ELSE operand
        Moved(instr) ==
            CASE instr.k \in {"Mov", "Binary", "Cmp"} ->
                   [instr EXCEPT !.src = Slot(@), !.dst = Slot(@)]
              [] instr.k \in {"Unary", "SetCC"} -> [instr EXCEPT !.dst = Slot(@)]
              [] instr.k = "Idiv" -> [instr EXCEPT !.operand = Slot(@)]
              [] OTHER -> instr
    IN [r EXCEPT !.instructions = [i \in 1..Len(r.instructions) |-> Moved(r.instructions[i])]]

replace_pseudo(instructions) ==
    replace_pseudo_loop(instructions, <<>>, EmptyTable, -4)

\* ------------------------------------------------- assembly (legalization)
StackStack(instr) == instr.src.k = "Stack" /\ instr.dst.k = "Stack"

fix_mov_Mov(instr) ==
    IF StackStack(instr)
    THEN << Mov(instr.src, Register("R10")), Mov(Register("R10"), instr.dst) >>
    ELSE << instr >>

\* variant: the arm for a multiplication by an immediate left out
fix_mov_Binary_no_imm_mul(instr) ==
    IF instr.op = "Mul" /\ StackStack(instr)
    THEN << Mov(instr.src, Register("R10")),
            Mov(instr.dst, Register("R11")),
            AsmBinary("Mul", Register("R10"), Register("R11")),
            Mov(Register("R11"), instr.dst) >>
    ELSE IF instr.op # "Mul" /\ StackStack(instr)
    THEN << Mov(instr.src, Register("R10")),
            AsmBinary(instr.op, Register("R10"), instr.dst) >>
    ELSE << instr >>

fix_mov_Binary(instr) ==
    IF instr.op \in {"Add", "Sub"} /\ StackStack(instr)
    THEN << Mov(instr.src, Register("R10")),
            AsmBinary(instr.op, Register("R10"), instr.dst) >>
    ELSE IF instr.op = "Mul" /\ instr.src.k = "Imm" /\ instr.dst.k = "Stack"
    THEN << Mov(instr.dst, Register("R11")),
            AsmBinary("Mul", instr.src, Register("R11")),
            Mov(Register("R11"), instr.dst) >>
    ELSE IF instr.op = "Mul" /\ StackStack(instr)
    THEN << Mov(instr.src, Register("R10")),
            Mov(instr.dst, Register("R11")),
            AsmBinary("Mul", Register("R10"), Register("R11")),
            Mov(Register("R11"), instr.dst) >>
    ELSE IF instr.op \in {"Ampersand", "Pipe", "Caret", "ShiftLeft", "ShiftRight"}
            /\ StackStack(instr)
    THEN << Mov(instr.src, Register("R10")),
            AsmBinary(instr.op, Register("R10"), instr.dst) >>
    ELSE << instr >>

\* variant: the immediate divisor staged through DX
fix_mov_Idiv_via_DX(instr) ==
    IF instr.operand.k = "Imm"
    THEN << Mov(instr.operand, Register("DX")), Idiv(Register("DX")) >>
    ELSE << instr >>

fix_mov_Idiv(instr) ==
    IF instr.operand.k = "Imm"
    THEN << Mov(instr.operand, Register("R10")), Idiv(Register("R10")) >>
    ELSE << instr >>

\* variant: the operands change places when the second is staged through R11
fix_mov_Cmp_swapped(instr) ==
    IF StackStack(instr)
    THEN << Mov(instr.src, Register("R10")), Cmp(Register("R10"), instr.dst) >>
    ELSE IF instr.dst.k = "Imm"
    THEN << Mov(instr.src, Register("R11")), Cmp(instr.dst, Register("R11")) >>
    ELSE << instr >>

fix_mov_Cmp(instr) ==
    IF StackStack(instr)
    THEN << Mov(instr.src, Register("R10")), Cmp(Register("R10"), instr.dst) >>
    ELSE IF instr.dst.k = "Imm"
    THEN << Mov(instr.dst, Register("R11")), Cmp(instr.src, Register("R11")) >>
    ELSE << instr >>

RECURSIVE fix_mov_loop(_)
fix_mov_loop(instructions) ==
    IF instructions = <<>> THEN <<>>
    ELSE LET instr == Head(instructions) IN
         (CASE instr.k = "Mov"    -> fix_mov_Mov(instr)
            [] instr.k = "Binary" -> fix_mov_Binary(instr)
            [] instr.k = "Idiv"   -> fix_mov_Idiv(instr)
            [] instr.k = "Cmp"    -> fix_mov_Cmp(instr)
            [] OTHER              -> << instr >>)
         \o fix_mov_loop(Tail(instructions))

\* variant: the frame allocated two slots short
fix_mov_short_frame(instructions, size) ==
    << AllocateStack(size - 8) >> \o fix_mov_loop(instructions)

fix_mov(instructions, size) ==
    << AllocateStack(size) >> \o fix_mov_loop(instructions)

\* ---------------------------------------------------- assembly (emission)
\* format!("{}", n) for an i32
FormatI32(n) == IF n < 0 THEN <<"-">> \o Dec(-n) ELSE Dec(n)

RegisterName(reg) ==
    CASE reg = "AX" -> "%eax" [] reg = "R10" -> "%r10d"
      [] reg = "R11" -> "%r11d" [] reg = "DX" -> "%edx"

RegisterByteName(reg) ==
    CASE reg = "AX" -> "%al" [] reg = "R10" -> "%r10b"
      [] reg = "R11" -> "%r11b" [] reg = "DX" -> "%dl"

\* Operand::to_assembly_file and to_assembly_file_byte: the pieces of the text
operand_to_assembly_file(operand) ==
    CASE operand.k = "Imm" -> <<"$">> \o FormatI32(operand.v)
      [] operand.k = "Register" -> << RegisterName(operand.reg) >>
      [] operand.k = "Pseudo" -> operand.name
      [] operand.k = "Stack" -> FormatI32(operand.offset) \o <<"(%rbp)">>

operand_to_assembly_file_byte(operand) ==
    CASE operand.k = "Imm" -> <<"$">> \o FormatI32(operand.v)
      [] operand.k = "Register" -> << RegisterByteName(operand.reg) >>
      [] operand.k = "Pseudo" -> operand.name
      [] operand.k = "Stack" -> FormatI32(operand.offset) \o <<"(%rbp)">>

CodeSuffix(code) ==
    CASE code = "E" -> "e" [] code = "NE" -> "ne" [] code = "G" -> "g"
      [] code = "GE" -> "ge" [] code = "L" -> "l" [] code = "LE" -> "le"

Mnemonic(op) ==
    CASE op = "Add" -> "addl " [] op = "Sub" -> "subl " [] op = "Mul" -> "imull "
      [] op = "Ampersand" -> "andl " [] op = "Pipe" -> "orl " [] op = "Caret" -> "xorl "
      [] op = "ShiftLeft" -> "sall " [] op = "ShiftRight" -> "sarl "

\* "<mnemonic> {}, {}"
TwoOperands(mnemonic, src, dst) ==
    <<mnemonic>> \o operand_to_assembly_file(src) \o <<", ">>
                 \o operand_to_assembly_file(dst)

\* the lines pushed for one instruction
instruction_to_assembly_file(instr) ==
    CASE instr.k = "Mov" -> << TwoOperands("movl ", instr.src, instr.dst) >>
      [] instr.k = "Unary" ->
           IF instr.op = "Neg" THEN << <<"negl ">> \o operand_to_assembly_file(instr.dst) >>
           ELSE IF instr.op = "Not"
           THEN << <<"notl ">> \o operand_to_assembly_file(instr.dst) >>
           ELSE << <<"cmpl $0, ">> \o operand_to_assembly_file(instr.dst),
                   <<"movl $0, %eax">>, <<"sete %al">>, <<"movzbl %al, %eax">>,
                   <<"movl %eax, ">> \o operand_to_assembly_file(instr.dst) >>
      [] instr.k = "AllocateStack" -> << <<"subq $">> \o FormatI32(instr.n) \o <<", %rsp">> >>
      [] instr.k = "Ret" -> << <<"movq %rbp, %rsp">>, <<"popq %rbp">>, <<"ret">> >>
      [] instr.k = "Binary" ->
           IF instr.op \in {"ShiftLeft", "ShiftRight"}
           THEN IF instr.src.k = "Register" /\ instr.dst.k = "Stack"
                THEN << <<"movl ">> \o operand_to_assembly_file(instr.src) \o <<", %ecx">>,
                        <<Mnemonic(instr.op), "%cl, ">> \o operand_to_assembly_file(instr.dst) >>
                ELSE IF instr.src.k = "Stack" /\ instr.dst.k = "Stack"
                THEN << <<"movl ">> \o operand_to_assembly_file(instr.src) \o <<", %ecx">>,
                        <<"movl ">> \o operand_to_assembly_file(instr.dst) \o <<", %eax">>,
                        <<Mnemonic(instr.op), "%cl, %eax">>,
                        <<"movl %eax, ">> \o operand_to_assembly_file(instr.dst) >>
                ELSE << TwoOperands(Mnemonic(instr.op), instr.src, instr.dst) >>
           ELSE << TwoOperands(Mnemonic(instr.op), instr.src, instr.dst) >>
      [] instr.k = "Idiv" -> << <<"idivl ">> \o operand_to_assembly_file(instr.operand) >>
      [] instr.k = "Cdq" -> << <<"cdq">> >>
      [] instr.k = "Jmp" -> << <<"jmp L">> \o instr.label >>
      [] instr.k = "JmpCC" -> << <<"j", CodeSuffix(instr.code), " L">> \o instr.label >>
      [] instr.k = "SetCC" ->
           << <<"movl $0, ">> \o operand_to_assembly_file(instr.dst),
              <<"set", CodeSuffix(instr.code), " ">>
                  \o operand_to_assembly_file_byte(instr.dst) >>
           \o (IF instr.dst.k = "Stack"
               THEN << <<"movzbl ">> \o operand_to_assembly_file_byte(instr.dst)
                                      \o <<", %eax">>,
                       <<"movl %eax, ">> \o operand_to_assembly_file(instr.dst) >>
               ELSE << <<"movzbl ">> \o operand_to_assembly_file_byte(instr.dst)
                                      \o <<", ">> \o operand_to_assembly_file(instr.dst) >>)
      [] instr.k = "Label" -> << <<"L">> \o instr.label \o <<":">> >>
      [] instr.k = "Cmp" -> << TwoOperands("cmpl ", instr.src, instr.dst) >>

RECURSIVE to_assembly_file_loop(_)
to_assembly_file_loop(instructions) ==
    IF instructions = <<>> THEN <<>>
    ELSE instruction_to_assembly_file(Head(instructions))
         \o to_assembly_file_loop(Tail(instructions))

\* the text, line by line, for the function `main`
to_assembly_file(instructions) ==
    << <<".globl _">> \o s_main, <<"_">> \o s_main \o <<":">>,
       <<"pushq %rbp">>, <<"movq %rsp, %rbp">> >>
    \o to_assembly_file_loop(instructions)

\* what the assembler and linker refuse: a move into an immediate, a label
\* defined twice, a jump to a label that is not defined
Unassemblable(b) ==
    \E i \in 1..Len(b) :
       \/ HasDst(b[i]) /\ b[i].dst.k = "Constant"
       \/ IsJump(b[i]) /\ Cardinality(LabelPositions(b, b[i].label)) # 1
       \/ b[i].k = "Label" /\ Cardinality(LabelPositions(b, b[i].label)) # 1

\* the `_ => panic!("Invalid operator")` arm of the builder
BuilderPanics(b) ==
    \E i \in 1..Len(b) : b[i].k = "Binary" /\ InvalidOperator(b[i].operator)

\* generate_assembly_ast: the builder, over the whole body
Assemble ==
    /\ stage = "assemble"
    /\ IF BuilderPanics(body)
       THEN stage' = "panic" /\ UNCHANGED asm
       ELSE stage' = "pseudo" /\ asm' = to_assembly_function(body)
    /\ UNCHANGED <<runVars, lexVars, outVars, input, entry, parseVars, error, resolveVars, tacVars,
                   stack_size, execVars>>
    /\ status' = exit_status(entry, stage')

\* apply_fixes, first half
ReplacePseudo ==
    /\ stage = "pseudo"
    /\ LET r == replace_pseudo(asm) IN
         /\ asm' = r.instructions
         /\ stack_size' = r.stack_size
    /\ stage' = "fix"
    /\ UNCHANGED <<runVars, lexVars, outVars, input, entry, parseVars, error, resolveVars, tacVars, execVars>>
    /\ status' = exit_status(entry, stage')

\* apply_fixes, second half
FixMov ==
    /\ stage = "fix"
    /\ asm' = fix_mov(asm, stack_size)
    /\ stage' = "emit"
    /\ UNCHANGED <<runVars, lexVars, outVars, input, entry, parseVars, error, resolveVars, tacVars,
                   stack_size, execVars>>
    /\ status' = exit_status(entry, stage')

\* to_assembly_file, and the text written to the .s file
Emit ==
    /\ stage = "emit"
    /\ assembly_code' = to_assembly_file(asm)
    /\ files' = files \cup {"s"}
    /\ stage' = "link"
    /\ UNCHANGED <<runVars, lexVars, input, entry, parseVars, error, resolveVars, tacVars,
                   asmVars, execVars>>
    /\ status' = exit_status(entry, stage')

\* the driver started a second time on the same source, in a new process
Rerun ==
    /\ stage = "link"
    /\ entry = "main"
    /\ run = 1
    /\ run' = 2
    /\ first_run' = Outputs
    /\ hash_seed' \in HashSeeds
    /\ pos' = 0
    /\ input' = <<>>
    /\ stage' = "lex"
    /\ tokens' = <<>>
    /\ block_items' = <<>>
    /\ program' = <<>>
    /\ tidx' = 0
    /\ body' = <<>>
    /\ sc' = {}
    /\ asm' = <<>>
    /\ stack_size' = 0
    /\ assembly_code' = <<>>
    /\ files' = {}
    /\ status' = Running_status
    /\ UNCHANGED <<source, entry, error, resolveVars, execVars>>

\* ------------------------------------------------- the compiled program run
\* The processor state the emitted text works on: the 32-bit registers it
\* names (%ecx among them), the slots under %rbp, the flags, and where the
\* run stands: "run", "ret" (main returned), "trap" (#DE), "wide" (idivl
\* found %edx not the sign of %eax), "flags" (a condition read after an
\* arithmetic instruction changed the flags), "fell" (ran off the text).
\* sets lists, for each set<cc> executed, the operand and the value left in it.
ReadOperand(m, operand) ==
    CASE operand.k = "Imm" -> operand.v
      [] operand.k = "Register" -> m.regs[operand.reg]
      [] operand.k = "Stack" ->
           IF operand.offset \in DOMAIN m.mem THEN m.mem[operand.offset] ELSE m.g

WriteOperand(m, operand, x) ==
    CASE operand.k = "Register" -> [m EXCEPT !.regs[operand.reg] = x]
      [] operand.k = "Stack" -> [m EXCEPT !.mem = (operand.offset :> x) @@ m.mem]

\* cmpl src, dst: the flags of dst - src
CmpFlags(src, dst) ==
    LET r == WrapSub(dst, src) IN
    [known |-> TRUE, zf |-> r = 0, sf |-> r < 0,
     of |-> ((dst < 0) # (src < 0)) /\ ((r < 0) # (dst < 0))]

Clobbered == [known |-> FALSE, zf |-> FALSE, sf |-> FALSE, of |-> FALSE]

\* the condition a j<cc> or set<cc> tests
Holds(code, f) ==
    CASE code = "E"  -> f.zf
      [] code = "NE" -> ~f.zf
      [] code = "L"  -> f.sf # f.of
      [] code = "LE" -> f.zf \/ (f.sf # f.of)
      [] code = "G"  -> ~f.zf /\ (f.sf = f.of)
      [] code = "GE" -> f.sf = f.of

Arith(op, dst, src) ==
    CASE op = "Add" -> WrapAdd(dst, src)
      [] op = "Sub" -> WrapSub(dst, src)
      [] op = "Mul" -> WrapMul(dst, src)
      [] op = "Ampersand" -> BitAnd(dst, src)
      [] op = "Pipe" -> BitOr(dst, src)
      [] op = "Caret" -> BitXor(dst, src)
      [] op = "ShiftLeft" -> ShlN(dst, src % 32)
      [] op = "ShiftRight" -> SarN(dst, src % 32)

LabelAt(a, label) == CHOOSE i \in 1..Len(a) : a[i] = AsmLabel(label)

\* the lines emitted for a Binary, executed
ExecBinary(m, instr) ==
    LET plain == WriteOperand(m, instr.dst,
                     Arith(instr.op, ReadOperand(m, instr.dst), ReadOperand(m, instr.src)))
    IN
    [ (IF instr.op \in {"ShiftLeft", "ShiftRight"}
       THEN IF instr.src.k = "Register" /\ instr.dst.k = "Stack"
            THEN LET c == [m EXCEPT !.regs["CX"] = ReadOperand(m, instr.src)] IN
                 WriteOperand(c, instr.dst,
                     Arith(instr.op, ReadOperand(c, instr.dst), c.regs["CX"]))
            ELSE IF instr.src.k = "Stack" /\ instr.dst.k = "Stack"
            THEN LET c == [m EXCEPT !.regs["CX"] = ReadOperand(m, instr.src),
                                    !.regs["AX"] = ReadOperand(m, instr.dst)]
                     x == Arith(instr.op, c.regs["AX"], c.regs["CX"])
                 IN WriteOperand([c EXCEPT !.regs["AX"] = x], instr.dst, x)
            ELSE plain
       ELSE plain)
      EXCEPT !.flags = Clobbered ]

\* the lines emitted for a SetCC, executed: the operand zeroed, its low byte
\* set, and for a slot the byte widened through %eax
ExecSetCC(m, instr) ==
    IF ~m.flags.known THEN [m EXCEPT !.halt = "flags"]
    ELSE LET byte == Bool(Holds(instr.code, m.flags))
             z    == WriteOperand(m, instr.dst, 0)
             s    == WriteOperand(z, instr.dst,
                         (ReadOperand(z, instr.dst) - (ReadOperand(z, instr.dst) % 256)) + byte)
             w    == IF instr.dst.k = "Stack"
                     THEN LET e == [s EXCEPT !.regs["AX"] = ReadOperand(s, instr.dst) % 256]
                          IN WriteOperand(e, instr.dst, e.regs["AX"])
                     ELSE WriteOperand(s, instr.dst, ReadOperand(s, instr.dst) % 256)
         IN [w EXCEPT !.sets = Append(w.sets,
                          [dst |-> instr.dst, v |-> ReadOperand(w, instr.dst)])]

ExecIdiv(m, instr) ==
    LET d == ReadOperand(m, instr.operand)
        a == m.regs["AX"]
    IN IF m.regs["DX"] # (IF a < 0 THEN -1 ELSE 0) THEN [m EXCEPT !.halt = "wide"]
       ELSE IF DivTraps(a, d) THEN [m EXCEPT !.halt = "trap"]
       ELSE [m EXCEPT !.regs["AX"] = TruncDiv(a, d), !.regs["DX"] = TruncRem(a, d),
                      !.flags = Clobbered]

\* one instruction of the text
MachineStep(m, a) ==
    LET instr == a[m.pc]
        next_pc(x) == IF x.halt = "run" THEN [x EXCEPT !.pc = m.pc + 1] ELSE x
    IN
    CASE instr.k = "Mov" ->
           next_pc(WriteOperand(m, instr.dst, ReadOperand(m, instr.src)))
      [] instr.k = "Unary" ->
           next_pc([ WriteOperand(m, instr.dst,
                        IF instr.op = "Neg" THEN WrapNeg(ReadOperand(m, instr.dst))
                        ELSE Complement(ReadOperand(m, instr.dst)))
                     EXCEPT !.flags = IF instr.op = "Neg" THEN Clobbered ELSE m.flags ])
      [] instr.k = "Binary" -> next_pc(ExecBinary(m, instr))
      [] instr.k = "Cmp" ->
           next_pc([m EXCEPT !.flags = CmpFlags(ReadOperand(m, instr.src),
                                                ReadOperand(m, instr.dst))])
      [] instr.k = "Idiv" -> next_pc(ExecIdiv(m, instr))
      [] instr.k = "Cdq" ->
           next_pc([m EXCEPT !.regs["DX"] = IF m.regs["AX"] < 0 THEN -1 ELSE 0])
      [] instr.k = "Jmp" -> [m EXCEPT !.pc = LabelAt(a, instr.label)]
      [] instr.k = "JmpCC" ->
           IF ~m.flags.known THEN [m EXCEPT !.halt = "flags"]
           ELSE IF Holds(instr.code, m.flags) THEN [m EXCEPT !.pc = LabelAt(a, instr.label)]
           ELSE next_pc(m)
      [] instr.k = "SetCC" -> next_pc(ExecSetCC(m, instr))
      [] instr.k \in {"Label", "AllocateStack"} -> next_pc(m)
      [] instr.k = "Ret" -> [m EXCEPT !.halt = "ret"]

\* Command::new(output_file).status(): the text run to its end
RECURSIVE RunMachine(_, _)
RunMachine(m, a) ==
    IF m.halt # "run" THEN m
    ELSE IF m.pc > Len(a) THEN [m EXCEPT !.halt = "fell"]
    ELSE RunMachine(MachineStep(m, a), a)

\* clang assembles and links, the .s file is removed; the binary is started
Link ==
    /\ stage = "link"
    /\ files' = IF Unassemblable(body) THEN files ELSE (files \ {"s"}) \cup {"binary"}
    /\ stage' = IF Unassemblable(body) THEN "asm_rejected" ELSE "exec"
    /\ garbage' \in GarbageValues
    /\ cpu' = IF Unassemblable(body) THEN cpu ELSE RunMachine(Boot(garbage'), asm)
    /\ UNCHANGED <<runVars, lexVars, assembly_code, input, entry, parseVars, error, resolveVars, tacVars, asmVars,
                   tpc, env, executed, exit>>
    /\ status' = exit_status(entry, stage')

\* a stack slot that no instruction wrote yet holds whatever was there
ValOf(v, e, g) ==
    IF v.k = "Constant" THEN v.v
    ELSE IF v.name \in DOMAIN e THEN e[v.name] ELSE g

Store(e, dst, x) == (dst.name :> x) @@ e

TacStep ==
    /\ stage = "exec"
    /\ tpc <= Len(body)
    /\ LET instr == body[tpc]
           V(v)  == ValOf(v, env, garbage)
       IN
       CASE instr.k = "Return" ->
              /\ exit' = V(instr.val)
              /\ stage' = "exited"
              /\ UNCHANGED <<tpc, env>>
         [] instr.k = "Unary" ->
              /\ env' = Store(env, instr.dst, EvalUnary(instr.operator, V(instr.src)))
              /\ tpc' = tpc + 1
              /\ UNCHANGED <<stage, exit>>
         [] instr.k = "Binary" ->
              IF instr.operator \in {"Divide", "Modulo"}
                 /\ DivTraps(V(instr.src1), V(instr.src2))
              THEN /\ stage' = "trap"
                   /\ UNCHANGED <<tpc, env, exit>>
              ELSE /\ env' = Store(env, instr.dst,
                                   EvalBinary(instr.operator, V(instr.src1), V(instr.src2)))
                   /\ tpc' = tpc + 1
                   /\ UNCHANGED <<stage, exit>>
         [] instr.k = "Copy" ->
              /\ env' = Store(env, instr.dst, V(instr.src))
              /\ tpc' = tpc + 1
              /\ UNCHANGED <<stage, exit>>
         [] instr.k \in {"JumpIfZero", "JumpIfNotZero"} ->
              LET jumps == (instr.k = "JumpIfZero") = (V(instr.src) = 0) IN
              /\ tpc' = IF jumps
                        THEN CHOOSE i \in LabelPositions(body, instr.label) : TRUE
                        ELSE tpc + 1
              /\ UNCHANGED <<stage, env, exit>>
         [] instr.k = "Jump" ->
              /\ tpc' = CHOOSE i \in LabelPositions(body, instr.label) : TRUE
              /\ UNCHANGED <<stage, env, exit>>
         [] instr.k = "Label" ->
              /\ tpc' = tpc + 1
              /\ UNCHANGED <<stage, env, exit>>
    /\ executed' = executed \cup {tpc}
    /\ UNCHANGED <<runVars, lexVars, outVars, input, entry, parseVars, error, resolveVars, tacVars, asmVars, garbage, cpu>>
    /\ status' = exit_status(entry, stage')

Next ==
    \/ LexNext
    \/ LexDone
    \/ ParseHeader
    \/ ParseBlockItem
    \/ ParseClose
    \/ ResolveBlockItem
    \/ ResolveDone
    \/ GenerateTacItem
    \/ TacEpilogue
    \/ Assemble
    \/ ReplacePseudo
    \/ FixMov
    \/ Emit
    \/ Rerun
    \/ Link
    \/ TacStep

Spec == Init /\ [][Next]_vars

\* ---------------------------------------------------------- error kinds
\* The code's errors are message strings; this is the kind each stands for.
ErrorKind(msg) ==
    CASE msg \in {"Unexpected end of file", "Empty program"} -> "UnexpectedEOF"
      [] msg = "Unexpected token" -> "TrailingTokens"
      [] msg \in {"Expected int keyword", "Expected main keyword",
                  "Expected void keyword", "Expected identifier",
                  "Expected token type",
                  "Unexpected token while parsing factor"} -> "UnexpectedToken"
      [] msg = "Variable not declared" -> "UndeclaredVariable"
      [] msg = "Variable already declared" -> "Redeclaration"
      [] msg = "Left side of assignment must resolve to a variable" ->
           "InvalidAssignmentTarget"
      [] msg = "Expected a Factor after resolving unary expression" ->
           "InternalInvariantViolation"
      [] msg = "Invalid constant followed by identifier" -> "InvalidNumber"
      [] msg = "Invalid character" -> "InvalidCharacter"
      [] OTHER -> "none"

ParsedOk  == stage \notin {"lex", "lex_error", "parse", "body", "parse_error"}
            /\ ~(stage = "panic" /\ body = <<>>)
Finished  == stage \in {"lex_error", "parse_error", "panic", "resolve_error",
                        "asm_rejected", "trap", "exited"}

\* ------------------------------------------------- reference: C semantics
\* The value C gives to a program of the subset: C's precedence table, and
\* an evaluation of the tree with operands taken left to right.
CPrecedence(op) ==
    CASE op \in {"Multiply", "Divide", "Modulo"} -> 50
      [] op \in {"Add", "Subtract"} -> 45
      [] op \in {"LeftShift", "RightShift"} -> 40
      [] op \in {"GreaterThan", "LessThan", "GreaterThanOrEqual",
                 "LessThanOrEqual"} -> 35
      [] op \in {"Equal", "NotEqual"} -> 30
      [] op = "BitwiseAnd" -> 25
      [] op = "BitwiseXor" -> 24
      [] op = "BitwiseOr" -> 23
      [] op = "LogicalAnd" -> 10
      [] op = "LogicalOr" -> 5
      [] op = "Assignment" -> 1

CPrecTable == [op \in BinaryOps |-> CPrecedence(op)]

RECURSIVE CParseItems(_, _)
CParseItems(toks, items) ==
    IF toks = <<>> THEN [ok |-> FALSE, items |-> items]
    ELSE IF Head(toks).token_type = "CloseBrace"
         THEN [ok |-> Tail(toks) = <<>>, items |-> items]
    ELSE LET r == parse_block_items(CPrecTable, toks) IN
         IF r.st # "ok" THEN [ok |-> FALSE, items |-> items]
         ELSE CParseItems(r.rest, Append(items, r.val))

CParse(toks) ==
    LET h == IF toks = <<>> THEN Err("Empty program", toks)
             ELSE parse_function_header(toks, 1)
    IN IF h.st # "ok" THEN [ok |-> FALSE, items |-> <<>>]
       ELSE CParseItems(h.rest, <<>>)

\* the variable an expression designates, <<>> if it is not an lvalue
RECURSIVE LValue(_)
LValue(e) ==
    CASE e.k = "Var" -> e.name
      [] e.k = "Factor" /\ e.f.k = "Exp" -> LValue(e.f.e)
      [] OTHER -> <<>>

\* m = [decl |-> names declared, val |-> values of those initialized]
CBad(m)   == [ok |-> FALSE, v |-> 0, m |-> m]
CVal(v, m) == [ok |-> TRUE, v |-> v, m |-> m]

RECURSIVE CEval(_, _), CEvalFactor(_, _)
CEvalFactor(f, m) ==
    CASE f.k = "Int" -> CVal(f.v, m)
      [] f.k = "Unary" ->
           LET x == CEvalFactor(f.f, m) IN
           IF ~x.ok THEN x ELSE CVal(EvalUnary(UnaryOperatorFrom(f.op), x.v), x.m)
      [] f.k = "Exp" -> CEval(f.e, m)

CEval(e, m) ==
    CASE e.k = "Factor" -> CEvalFactor(e.f, m)
      [] e.k = "Var" ->
           IF e.name \in DOMAIN m.val THEN CVal(m.val[e.name], m) ELSE CBad(m)
      [] e.k = "Assignment" ->
           LET r == CEval(e.r, m)
               n == LValue(e.l)
           IN IF ~r.ok \/ n \notin r.m.decl THEN CBad(m)
              ELSE CVal(r.v, [r.m EXCEPT !.val = (n :> r.v) @@ r.m.val])
      [] e.k = "Binary" ->
           LET l == CEval(e.l, m) IN
           IF ~l.ok THEN l
           ELSE IF e.op = "LogicalAnd" /\ l.v = 0 THEN CVal(0, l.m)
           ELSE IF e.op = "LogicalOr" /\ l.v # 0 THEN CVal(1, l.m)
           ELSE LET r == CEval(e.r, l.m) IN
                IF ~r.ok THEN r
                ELSE IF e.op \in {"LogicalAnd", "LogicalOr"}
                     THEN CVal(Bool(r.v # 0), r.m)
                ELSE IF e.op \in {"Divide", "Modulo"} /\ DivTraps(l.v, r.v)
                     THEN CBad(r.m)
                ELSE CVal(EvalBinary(BinaryOperatorFrom(e.op), l.v, r.v), r.m)

\* [ok, v]: ok when the program is well-formed and its behaviour defined;
\* v the value main returns (0 when control reaches the end of main)
RECURSIVE CRun(_, _, _)
CRun(items, i, m) ==
    IF i > Len(items) THEN [ok |-> TRUE, v |-> 0]
    ELSE LET it == items[i] IN
      CASE it.k = "Declaration" ->
             IF it.name \in m.decl THEN [ok |-> FALSE, v |-> 0]
             ELSE LET m1 == [m EXCEPT !.decl = @ \cup {it.name}] IN
                  IF it.init.k = "None" THEN CRun(items, i + 1, m1)
                  ELSE LET x == CEval(it.init.e, m1) IN
                       IF ~x.ok THEN [ok |-> FALSE, v |-> 0]
                       ELSE CRun(items, i + 1,
                                 [x.m EXCEPT !.val = (it.name :> x.v) @@ x.m.val])
        [] it.k = "Return" ->
             LET x == CEval(it.e, m) IN [ok |-> x.ok, v |-> x.v]
        [] it.k = "Expression" ->
             LET x == CEval(it.e, m) IN
             IF ~x.ok THEN [ok |-> FALSE, v |-> 0] ELSE CRun(items, i + 1, x.m)
        [] it.k = "Null" -> CRun(items, i + 1, m)

CValue(toks) ==
    LET p == CParse(toks) IN
    IF ~p.ok THEN [ok |-> FALSE, v |-> 0]
    ELSE CRun(p.items, 1, [decl |-> {}, val |-> EmptyTable])

\* -------------------------------------------------------------- properties

\* C1: for every well-formed program, the whole pipeline followed by the
\* execution of the emitted code ends with the value of the return
\* expression under C semantics for 32-bit int, C's precedence included.
C1_ExitStatusIsCValue ==
    stage = "exited" => LET c == CValue(input) IN c.ok => exit = c.v

\* the tree expected for `a op1 b op2 c`
OperandA == Factor(FExp(Var(<<"a">>)))
OperandB == Factor(FExp(Var(<<"b">>)))
OperandC == Factor(FExp(Var(<<"c">>)))

Node(op, l, r) == IF op = "Assignment" THEN Assignment(l, r) ELSE Binary(l, op, r)

RightGroupsFirst(op1, op2) ==
    IF op1 = "Assignment" /\ op2 = "Assignment" THEN TRUE
    ELSE PrecTable[op2] > PrecTable[op1]

ExpectedGrouping(op1, op2) ==
    IF RightGroupsFirst(op1, op2)
    THEN Node(op1, OperandA, Node(op2, OperandB, OperandC))
    ELSE Node(op2, Node(op1, OperandA, OperandB), OperandC)

\* the two operators of a program of PrecPrograms, read off its tokens
PrecPrefix == Header \o Decl("a", 6) \o Decl("b", 3) \o Decl("c", 2)
              \o <<T_return, Id("a")>>
PrecOp1(inp) == parse_op(inp[Len(PrecPrefix) + 1])
PrecOp2(inp) == parse_op(inp[Len(PrecPrefix) + 3])

\* C2: the tree parse_expression builds for `a op1 b op2 c` follows the
\* precedence table: op2 groups first when its precedence is higher, two
\* operators of equal precedence group to the left, and a chain of
\* assignments groups to the right.
C2_PrecedenceGrouping ==
    (input \in PrecPrograms /\ Len(block_items) >= 4) =>
        /\ input = PrecProgram(PrecOp1(input), PrecOp2(input))
        /\ block_items[4] = Return(ExpectedGrouping(PrecOp1(input), PrecOp2(input)))

C2_Witness ==
    /\ input = PrecProgram("Subtract", "Add")
    /\ Len(block_items) = 4
    /\ block_items[4].e.k = "Binary"
    /\ block_items[4].e.l.k = "Binary"

\* C3: when the token stream ends before the program is complete, the parser
\* returns an UnexpectedEOF error; it never aborts on an empty token buffer.
C3_TruncatedIsUnexpectedEOF ==
    (input \in TruncatedPrograms /\ stage \notin {"lex", "parse", "body"}) =>
        (stage = "parse_error" /\ ErrorKind(error) = "UnexpectedEOF")

IsSuffix(s, t) ==
    /\ Len(s) <= Len(t)
    /\ s = SubSeq(t, Len(t) - Len(s) + 1, Len(t))

\* C4: the parser only removes tokens from the front of the buffer; it
\* returns Ok only with an empty buffer, and a token left after the closing
\* brace of the function makes it return the TrailingTokens error.
C4_FrontConsumedNoTrailing ==
    [][ /\ stage # "lex" => IsSuffix(tokens', tokens)
        /\ (stage = "body" /\ stage' \in {"tac", "resolve"}) => tokens' = <<>>
        /\ (/\ stage = "body"
            /\ Len(tokens) > 1
            /\ Head(tokens).token_type = "CloseBrace")
           => (stage' = "parse_error" /\ ErrorKind(error') = "TrailingTokens")
      ]_vars

C4_Witness ==
    /\ input \in TrailingPrograms
    /\ stage = "parse_error"
    /\ ErrorKind(error) = "TrailingTokens"
    /\ tokens # <<>>

\* --------------------------------------------- what a list of block items holds
\* the Exp nodes of an expression, itself included
RECURSIVE Nodes(_), FNodes(_)
FNodes(f) ==
    CASE f.k = "Int" -> {}
      [] f.k = "Unary" -> FNodes(f.f)
      [] f.k = "Exp" -> Nodes(f.e)

Nodes(e) ==
    {e} \cup CASE e.k = "Var" -> {}
               [] e.k = "Factor" -> FNodes(e.f)
               [] e.k \in {"Binary", "Assignment"} -> Nodes(e.l) \cup Nodes(e.r)

ItemNodes(item) ==
    CASE item.k = "Declaration" ->
           IF item.init.k = "Some" THEN Nodes(item.init.e) ELSE {}
      [] item.k \in {"Return", "Expression"} -> Nodes(item.e)
      [] OTHER -> {}

DeclIndexes(items) == { i \in 1..Len(items) : items[i].k = "Declaration" }

DeclNames(items) == { items[i].name : i \in DeclIndexes(items) }

VarNames(items) ==
    UNION { { n.name : n \in { m \in ItemNodes(items[i]) : m.k = "Var" } }
            : i \in 1..Len(items) }

\* the declarations that name a variable an earlier declaration introduced
Redeclarations(items) ==
    { i \in DeclIndexes(items) :
        \E j \in DeclIndexes(items) : j < i /\ items[j].name = items[i].name }

FirstRedeclaration(items) ==
    CHOOSE i \in Redeclarations(items) : \A j \in Redeclarations(items) : i <= j

\* a variable is used in a block item that no declaration up to that block
\* item introduces
UsesUndeclared(items) ==
    \E i \in 1..Len(items) :
       \E n \in ItemNodes(items[i]) :
          /\ n.k = "Var"
          /\ n.name \notin DeclNames(SubSeq(items, 1, i))

\* an assignment, at any depth, whose left side is not a variable, in or out
\* of parentheses
HasInvalidTarget(items) ==
    \E i \in 1..Len(items) :
       \E n \in ItemNodes(items[i]) : n.k = "Assignment" /\ LValue(n.l) = <<>>

LibraryEntry == entry = "parse_and_resolve_program"

\* the resolver ran and returned
Resolved     == LibraryEntry /\ ParsedOk /\ stage # "resolve"
ResolvedOk   == Resolved /\ stage # "resolve_error"

\* C5 as stated: whenever a declaration names a variable that an earlier
\* declaration introduced, the resolver fails with Redeclaration.
C5_DuplicateIsRedeclaration ==
    (Resolved /\ Redeclarations(block_items) # {}) =>
        (stage = "resolve_error" /\ ErrorKind(error) = "Redeclaration")

\* C5, with the order of the errors: a sequence of block items in which a declaration names a variable that
\* an earlier declaration introduced is never resolved to a program: the
\* resolver stops at the first such declaration at the latest, and with
\* Redeclaration when it gets that far (an earlier block item that fails
\* decides the error otherwise).
C5_DuplicateNeverResolved ==
    (LibraryEntry /\ ParsedOk /\ Redeclarations(block_items) # {}) =>
        /\ stage \in {"resolve", "resolve_error"}
        /\ Len(resolved_items) < FirstRedeclaration(block_items)
        /\ (/\ stage = "resolve_error"
            /\ Len(resolved_items) + 1 = FirstRedeclaration(block_items))
           => ErrorKind(error) = "Redeclaration"
        /\ program = <<>>

C5_Witness ==
    /\ LibraryEntry
    /\ stage = "resolve_error"
    /\ Redeclarations(block_items) # {}
    /\ Len(resolved_items) + 1 = FirstRedeclaration(block_items)
    /\ resolved_items # <<>>
    /\ error = "Variable already declared"

\* C6: the driver, given a program that uses a variable no earlier
\* declaration introduces, stops with UndeclaredVariable and generates no
\* TAC and no assembly.
C6_UndeclaredUseStopsDriver ==
    (entry = "main" /\ UsesUndeclared(block_items)) =>
        /\ stage \notin {"tac", "assemble", "pseudo", "fix", "emit", "link", "asm_rejected",
                        "exec", "trap", "exited"}
        /\ body = <<>>
        /\ ParsedOk => ErrorKind(error) = "UndeclaredVariable"

\* C7 as stated: whenever an assignment has a left side that is not a
\* variable, the resolver fails with InvalidAssignmentTarget.
C7_InvalidTargetKind ==
    (Resolved /\ HasInvalidTarget(block_items)) =>
        (stage = "resolve_error" /\ ErrorKind(error) = "InvalidAssignmentTarget")

\* C7, with the order of the errors: a program with an assignment, at any depth, whose left side is not a
\* variable is rejected by the resolver; the error is InvalidAssignmentTarget
\* when the program uses no undeclared variable and redeclares none (both
\* sides of an assignment are resolved before its target is looked at, and
\* the first error in program order is the one returned).
C7_InvalidTargetRejected ==
    (Resolved /\ HasInvalidTarget(block_items)) =>
        /\ stage = "resolve_error"
        /\ (~UsesUndeclared(block_items) /\ Redeclarations(block_items) = {})
           => ErrorKind(error) = "InvalidAssignmentTarget"

\* rejected for `-a = 2` inside the doubly parenthesized initializer of b
C7_Witness ==
    /\ LibraryEntry
    /\ input = Prog(Decl("a", 1)
                    \o <<T_int, Id("b"), ASSIGN>>
                    \o Paren(Paren(<<NEG, Id("a"), ASSIGN, K(2)>>)) \o <<SEMI>>)
    /\ stage = "resolve_error"
    /\ error = "Left side of assignment must resolve to a variable"
    /\ Len(resolved_items) = 1

\* int a = 1; (a) = s;
ParenTargetPrograms ==
    { Prog(Decl("a", 1) \o Paren(<<Id("a")>>) \o <<ASSIGN>> \o s \o <<SEMI>>)
      : s \in {<<K(2)>>, <<Id("a")>>} }

\* C8: `(a) = s`, a declared variable in one pair of parentheses as the left
\* side, is accepted by parse followed by resolve, as `a = s` is.
C8_ParenthesizedTargetAccepted ==
    (LibraryEntry /\ input \in ParenTargetPrograms) =>
        stage \notin {"parse_error", "resolve_error", "panic"}

\* C9: in a program the resolver returned, every name in a Var node is the
\* name of a Declaration node of the function.
C9_VarNamesDeclared ==
    /\ LibraryEntry => VarNames(resolved_items) \subseteq DeclNames(resolved_items)
    /\ ResolvedOk => (/\ program = resolved_items
                      /\ VarNames(program) \subseteq DeclNames(program))

C9_Witness ==
    /\ ResolvedOk
    /\ Len(program) = 2
    /\ DeclNames(program) = {<<"a">>, <<"b">>}
    /\ VarNames(program) = {<<"a">>}

\* ----------------------------------------------- the && and || of a TAC body
Value(v) == ValOf(v, env, garbage)

Running == stage \in {"exec", "exited", "trap"}

\* the left operand was found to decide the result
ShortCircuits(s) ==
    IF s.op = "LogicalAnd" THEN Value(s.bool_dst) = 0 ELSE Value(s.bool_dst) # 0

RightPositions(s) == s.rstart .. (s.label - 1)

\* the jump is the one for the operator, on the left operand's truth value,
\* to a label defined once, after every instruction of the right operand
JumpPastRight(s) ==
    /\ body[s.jump].k = (IF s.op = "LogicalAnd" THEN "JumpIfZero" ELSE "JumpIfNotZero")
    /\ body[s.jump].src = s.bool_dst
    /\ body[s.jump - 2] = TacBinary("NotEqual", s.lval, Constant(0), s.bool_dst)
    /\ LabelPositions(body, body[s.jump].label) = {s.label}
    /\ s.jump < s.rstart /\ s.rstart <= s.rend /\ s.rend < s.label

\* C10: the conditional jump of `a && b` (JumpIfZero) and of `a || b`
\* (JumpIfNotZero) tests a's truth value and targets a label after all of
\* b's lowering; when a decides, no instruction of b executes and the result
\* is 0 for && and 1 for ||; when it does not, the result is 1 if b is
\* nonzero and 0 otherwise.
C10_ShortCircuit ==
    Running =>
      \A s \in sc :
        /\ JumpPastRight(s)
        /\ (stage = "exec" /\ tpc = s.jump)
           => Value(s.bool_dst) = Bool(Value(s.lval) # 0)
        /\ (s.jump \in executed /\ ShortCircuits(s))
           => /\ executed \cap RightPositions(s) = {}
              /\ tpc \notin RightPositions(s)
        /\ (stage = "exec" /\ tpc = s.label)
           => /\ s.jump \in executed
              /\ IF ShortCircuits(s)
                 THEN Value(s.dst) = (IF s.op = "LogicalAnd" THEN 0 ELSE 1)
                 ELSE /\ (s.label - 1) \in executed
                      /\ Value(s.dst) = Bool(Value(s.rval) # 0)

\* a && whose left operand is zero, skipped over a right operand of several
\* instructions, the program then returning
C10_Witness ==
    /\ stage = "exited"
    /\ exit = 0
    /\ \E s \in sc :
         /\ s.op = "LogicalAnd"
         /\ s.jump \in executed
         /\ s.label \in executed
         /\ s.rend > s.rstart + 1
         /\ executed \cap RightPositions(s) = {}

\* ------------------------------------------------------ the epilogue of main
ReturnPositions(b) == { i \in 1..Len(b) : b[i].k = "Return" }

\* C18: Return(Constant(0)) is appended to the body of main exactly when the
\* lowered block items left no Return in it, and nothing else is changed; the
\* body handed on therefore holds a Return.
C18_ImplicitReturn ==
    [][ (stage = "tac" /\ stage' # "tac") =>
          /\ (ReturnPositions(body) = {}) => body' = Append(body, TacReturn(Constant(0)))
          /\ (ReturnPositions(body) # {}) => body' = body
          /\ ReturnPositions(body') # {}
      ]_vars

\* a body of several instructions, a Return among them but not the last one,
\* was handed on as it was
C18_Witness ==
    /\ stage = "assemble"
    /\ Len(body) > 1
    /\ ReturnPositions(body) # {}
    /\ Len(body) \notin ReturnPositions(body)

\* ------------------------------------------------- temporaries and labels
IsTemporary(v) ==
    v.k = "Identifier" /\ Len(v.name) > Len(s_tmp)
                       /\ SubSeq(v.name, 1, Len(s_tmp)) = s_tmp

\* the instructions pushed by the lowering of one && or || node itself
OwnPositions(s) == {s.jump - 2, s.jump - 1, s.jump, s.label - 1, s.label}

\* the expression node an instruction was pushed by: a && or || node is named
\* by the position of its jump, any other node by the one instruction it pushes
Node_of(p) ==
    IF \E s \in sc : p \in OwnPositions(s)
    THEN (CHOOSE s \in sc : p \in OwnPositions(s)).jump
    ELSE p

Writers(v) == { p \in 1..Len(body) : HasDst(body[p]) /\ body[p].dst = v }

\* C19: every temporary tmp.N is the destination of instructions of exactly
\* one expression node, and every label is defined by exactly one Label
\* instruction of the body.
C19_FreshNames ==
    /\ \A p \in 1..Len(body) :
         (HasDst(body[p]) /\ IsTemporary(body[p].dst)) =>
            \A q \in Writers(body[p].dst) : Node_of(q) = Node_of(p)
    /\ \A p \in 1..Len(body) :
         (IsJump(body[p]) \/ body[p].k = "Label") =>
            Cardinality(LabelPositions(body, body[p].label)) = 1

\* ------------------------------------------------ the lowering and the tree
\* C20: for every resolved program, executing its three-address code returns
\* the value that evaluating the resolved tree gives, operands left to right,
\* under 32-bit arithmetic.
C20_TacAgreesWithTree ==
    (LibraryEntry /\ stage = "exited") =>
        LET c == CRun(program, 1, [decl |-> {}, val |-> EmptyTable])
        IN c.ok => exit = c.v

\* ------------------------------------------------- pseudo registers, slots
\* the operands of an instruction, source first
Operands(instr) ==
    CASE instr.k \in {"Mov", "Binary", "Cmp"} -> << instr.src, instr.dst >>
      [] instr.k \in {"Unary", "SetCC"} -> << instr.dst >>
      [] instr.k = "Idiv" -> << instr.operand >>
      [] OTHER -> << >>

RECURSIVE OperandSeq(_)
OperandSeq(a) == IF a = <<>> THEN <<>> ELSE Operands(Head(a)) \o OperandSeq(Tail(a))

PseudoAt(ops) == { p \in 1..Len(ops) : ops[p].k = "Pseudo" }

\* the number of distinct names met up to the first occurrence of ops[p]'s name
Rank(ops, p) ==
    LET first == CHOOSE q \in PseudoAt(ops) :
                     /\ ops[q].name = ops[p].name
                     /\ \A r \in PseudoAt(ops) : ops[r].name = ops[p].name => q <= r
    IN Cardinality({ ops[r].name : r \in PseudoAt(ops) \cap (1..first) })

\* C11: pseudo-resolution leaves no Pseudo operand; every occurrence of one
\* name becomes the same Stack(offset), different names get different
\* offsets, and the offsets are -4, -8, ... in order of first occurrence;
\* nothing else of the instruction list changes.
C11_PseudoSlots ==
    [][ (stage = "pseudo" /\ stage' # "pseudo") =>
          LET before == OperandSeq(asm)
              after  == OperandSeq(asm')
          IN /\ Len(asm') = Len(asm)
             /\ \A i \in 1..Len(asm) : asm'[i].k = asm[i].k
             /\ Len(after) = Len(before)
             /\ PseudoAt(after) = {}
             /\ \A p \in 1..Len(before) :
                  IF p \in PseudoAt(before)
                  THEN after[p] = Stack(-4 * Rank(before, p))
                  ELSE after[p] = before[p]
             /\ \A p, q \in PseudoAt(before) :
                  (before[p].name = before[q].name) <=> (after[p] = after[q])
      ]_vars

\* three names resolved, one of them used by several instructions
C11_Witness ==
    /\ stage = "fix"
    /\ \E i \in 1..Len(asm) : asm[i].k = "Mov" /\ asm[i].dst = Stack(-12)
    /\ \E i, j \in 1..Len(asm) :
         /\ i < j
         /\ asm[i].k = "Mov" /\ asm[i].dst = Stack(-4)
         /\ asm[j].k = "Mov" /\ asm[j].src = Stack(-4)

\* ------------------------------------------------------------ legalization
Legalized == stage \in {"emit", "link", "asm_rejected", "exec", "trap", "exited"}

\* C12: after pseudo-resolution and legalization no Mov, Add, Sub, And, Or or
\* Xor has two Stack operands, no Mul has a Stack destination, no Idiv has an
\* Imm operand and no Cmp has an Imm in second position.
C12_LegalOperands ==
    Legalized =>
      \A i \in 1..Len(asm) :
        LET instr == asm[i] IN
        /\ instr.k = "Mov" => ~StackStack(instr)
        /\ (instr.k = "Binary" /\ instr.op \in {"Add", "Sub", "Ampersand", "Pipe", "Caret"})
              => ~StackStack(instr)
        /\ (instr.k = "Binary" /\ instr.op = "Mul") => instr.dst.k # "Stack"
        /\ instr.k = "Idiv" => instr.operand.k # "Imm"
        /\ instr.k = "Cmp" => instr.dst.k # "Imm"

\* a multiplication of a stack slot by a constant, made in R11
C12_Witness ==
    /\ stage = "link"
    /\ \E i \in 2..(Len(asm) - 1) :
         /\ asm[i].k = "Binary" /\ asm[i].op = "Mul" /\ asm[i].src.k = "Imm"
         /\ asm[i].dst = Register("R11")
         /\ asm[i - 1].k = "Mov" /\ asm[i - 1].src.k = "Stack"
         /\ asm[i + 1] = Mov(Register("R11"), asm[i - 1].src)

\* ------------------------------------------------------------------ lexemes
Letters == LowerChars \cup UpperChars
Digits  == { DigitChars[d] : d \in 1..10 }

\* where the token that next is about to scan starts: after the white space
TokenStart ==
    CHOOSE p \in pos..Len(source) :
       /\ \A i \in pos..(p - 1) : CharAt(source, i) \in {" ", "\t", "\n", "\r"}
       /\ p < Len(source) => CharAt(source, p) \notin {" ", "\t", "\n", "\r"}

\* the end of the longest run of characters of `class` that starts at p
RunEnd(p, class) ==
    CHOOSE e \in p..Len(source) :
       /\ \A i \in p..(e - 1) : CharAt(source, i) \in class
       /\ e < Len(source) => CharAt(source, e) \notin class

Scanning == stage = "lex" /\ pos < Len(source) /\ TokenStart < Len(source)

\* C14: a maximal run of digits immediately followed by a letter makes the
\* lexer fail with InvalidNumber, no token list being returned; followed by
\* anything else, or by the end of the text, it yields one constant token
\* holding exactly those digits.
C14_DigitRun ==
    [][ (Scanning /\ CharAt(source, TokenStart) \in Digits) =>
          LET e == RunEnd(TokenStart, Digits) IN
          IF e < Len(source) /\ CharAt(source, e) \in Letters
          THEN /\ stage' = "lex_error"
               /\ ErrorKind(error') = "InvalidNumber"
               /\ tokens' = <<>>
               /\ status' > 0
          ELSE /\ stage' = "lex"
               /\ tokens' = Append(tokens, Tok("CONSTANT", SubSeq(source, TokenStart + 1, e)))
               /\ pos' = e
      ]_vars

\* `return 12X`: the token of `return` was scanned and is not returned
C14_Witness ==
    /\ source = Text(<<T_return>>) \o <<"1", "2", "X">>
    /\ stage = "lex_error"
    /\ ErrorKind(error) = "InvalidNumber"
    /\ pos = Len(source) - 1
    /\ tokens = <<>>

WordChars == Letters \cup Digits \cup {"_"}

\* C15: a lexeme that starts with a letter or an underscore is scanned as one
\* maximal run of letters, digits and underscores, an identifier unless it is
\* a reserved word; a `_` at the start of a token is not an error.
C15_WordRun ==
    [][ (Scanning /\ CharAt(source, TokenStart) \in Letters \cup {"_"}) =>
          LET e == RunEnd(TokenStart, WordChars)
              w == SubSeq(source, TokenStart + 1, e)
          IN /\ stage' = "lex"
             /\ pos' = e
             /\ Len(tokens') = Len(tokens) + 1
             /\ tokens'[Len(tokens')].value = w
             /\ w \notin ReservedWords => tokens' = Append(tokens, Tok("IDENTIFIER", w))
      ]_vars

\* the names the parsed declarations introduce
DeclaredNames(items) ==
    { items[i].name : i \in { j \in 1..Len(items) : items[j].k = "Declaration" } }

\* C16: each of int, void, return, if, else, while, for is lexed as a keyword
\* token, never as an identifier, and none is accepted by the parser as the
\* name of a declared variable.
C16_ReservedWords ==
    /\ \A i \in 1..Len(tokens) :
         tokens[i].value \in ReservedWords => tokens[i].token_type = "KEYWORD"
    /\ DeclaredNames(block_items) \cap ReservedWords = {}

\* ------------------------------------------------------- errors and outputs
ErrorStages == {"lex_error", "parse_error", "resolve_error"}

NothingLater ==
    /\ program = <<>> /\ body = <<>> /\ asm = <<>> /\ assembly_code = <<>>
    /\ files = {}
    /\ tpc = 1 /\ executed = {}

ConstantTokens(toks) ==
    { i \in 1..Len(toks) : toks[i].token_type = "CONSTANT" }

\* the value the digits of the program's constant denote, -1 over i32::MAX
Denoted(toks) ==
    LET i == CHOOSE j \in ConstantTokens(toks) : TRUE
        c == CHOOSE d \in LargeConstants : d[1] = toks[i].value
    IN c[2]

\* C30: every integer constant the lexer accepts becomes Factor::Int holding
\* its decimal value, or an error result when the value does not fit in an i32;
\* the parser never aborts on a constant.
C30_ConstantParsed ==
    (input \in LargeConstantPrograms /\ stage \notin {"lex", "parse", "body"}) =>
        /\ stage # "panic"
        /\ IF Denoted(input) = -1
           THEN stage = "parse_error"
           ELSE block_items \in
                  { <<Return(Factor(FInt(Denoted(input))))>>,
                    <<Declaration(<<"a">>,
                        Some(Factor(Unary("Negation", FInt(Denoted(input))))))>> }

\* ----------------------------------------------------------------- comments
\* the source holds a block comment that is open at end of input
EndsInOpenComment ==
    \E c \in OpenComments : \E pre \in {<<>>, Text(Header), Text(Prog(Ret(<<K(2)>>)))} :
        source = pre \o c

\* C24: a block comment opened with /* and not closed before end of input
\* makes the lexer fail (UnterminatedComment); no comment token is produced
\* for it and no token list reaches the parser.
C24_UnterminatedComment ==
    (EndsInOpenComment /\ stage # "lex") => stage = "lex_error"

\* ------------------------------------------------------------------- tags
TagInStream == \E i \in 1..Len(input) : input[i].token_type = "Tag"

\* C25: a `#` tag token at any position of the token stream makes the parser
\* return an error; no program containing a tag token is parsed successfully.
C25_TagRejected ==
    (TagInStream /\ stage \notin {"lex", "parse", "body"}) => stage = "parse_error"

\* ------------------------------------------------- operators of the builder
\* C26: the assembly builder never reaches its `Invalid operator` branch: no
\* Binary instruction of a generated body carries LogicalAnd, LogicalOr or
\* Assign, and the only aborts are those of the parser, before any body exists.
C26_NoInvalidOperator ==
    /\ \A i \in 1..Len(body) :
          body[i].k = "Binary" => ~InvalidOperator(body[i].operator)
    /\ ~BuilderPanics(body)
    /\ stage = "panic" => (body = <<>> /\ asm = <<>>)

\* the builder translated a body lowered from an && or || and an assignment
C26_Witness ==
    /\ stage = "pseudo"
    /\ asm # <<>>
    /\ sc # {}
    /\ \E i \in 1..Len(block_items) : \E n \in ItemNodes(block_items[i]) :
          n.k = "Assignment"

\* ------------------------------------------------------------ unique names
\* unique is name followed by a dot and a run of digits
IsSuffixed(unique, name) ==
    /\ Len(unique) > Len(name) + 1
    /\ SubSeq(unique, 1, Len(name)) = name
    /\ unique[Len(name) + 1] = "."
    /\ \A i \in (Len(name) + 2)..Len(unique) : unique[i] \in Digits

UniqueNamesDistinct ==
    /\ \A m, n \in DOMAIN symbol_table :
          symbol_table[m] = symbol_table[n] => m = n
    /\ \A i, j \in DeclIndexes(resolved_items) :
          resolved_items[i].name = resolved_items[j].name => i = j

\* the block item the resolver takes next is a declaration of an unmapped name
DeclaresUnmapped ==
    /\ stage = "resolve"
    /\ Len(resolved_items) < Len(block_items)
    /\ block_items[Len(resolved_items) + 1].k = "Declaration"
    /\ block_items[Len(resolved_items) + 1].name \notin DOMAIN symbol_table

\* C27 as stated: the unique name of every declared variable is the name with
\* a numeric suffix, and the unique names of a function are pairwise distinct.
C27_UniqueNameSuffixed ==
    /\ \A n \in DOMAIN symbol_table : IsSuffixed(symbol_table[n], n)
    /\ UniqueNamesDistinct

\* C27, amended: on a declaration of an unmapped name the resolver maps the
\* name to itself, unchanged, before it resolves the initializer (the entry is
\* in the table also when the initializer fails to resolve, and an
\* initializer may use the name), and the unique names of all declarations
\* of the function are pairwise distinct.
C27_UniqueNames ==
    /\ []UniqueNamesDistinct
    /\ [][ DeclaresUnmapped =>
             LET decl == block_items[Len(resolved_items) + 1] IN
             /\ symbol_table' = (decl.name :> decl.name) @@ symbol_table
             /\ stage' = "resolve" =>
                  /\ resolved_items'[Len(resolved_items')].k = "Declaration"
                  /\ resolved_items'[Len(resolved_items')].name = decl.name
             /\ (/\ VarNames(<<decl>>) \subseteq DOMAIN symbol_table'
                 /\ \A n \in ItemNodes(decl) : n.k # "Assignment")
                  => stage' = "resolve" ]_vars

\* two declarations resolved, the first with an initializer that names the
\* variable it declares
C27_Witness ==
    /\ LibraryEntry
    /\ stage = "resolve"
    /\ Len(resolved_items) = 2
    /\ Cardinality(DOMAIN symbol_table) = 2
    /\ resolved_items[1].k = "Declaration"
    /\ resolved_items[1].init.k = "Some"
    /\ resolved_items[1].name \in VarNames(<<resolved_items[1]>>)

\* --------------------------------------------------- the operands of the TAC
\* the Vals an instruction reads or writes (labels are not values)
TacVals(instr) ==
    CASE instr.k = "Return" -> {instr.val}
      [] instr.k = "Unary" -> {instr.src, instr.dst}
      [] instr.k = "Binary" -> {instr.src1, instr.src2, instr.dst}
      [] instr.k = "Copy" -> {instr.src, instr.dst}
      [] instr.k \in {"JumpIfZero", "JumpIfNotZero"} -> {instr.src}
      [] OTHER -> {}

\* tmp.N: the prefix `tmp.` followed by a run of digits
IsTmpN(v) ==
    /\ IsTemporary(v)
    /\ \A i \in (Len(s_tmp) + 1)..Len(v.name) : v.name[i] \in Digits

ConditionalJumps(b) ==
    { i \in 1..Len(b) : b[i].k \in {"JumpIfZero", "JumpIfNotZero"} }

\* every conditional jump has one target, after it, with no Return between
ForwardJumps(b) ==
    \A i \in ConditionalJumps(b) :
       /\ Cardinality(LabelPositions(b, b[i].label)) = 1
       /\ \A p \in LabelPositions(b, b[i].label) :
             /\ p > i
             /\ \A q \in i..p : b[q].k # "Return"

\* a step of the execution goes to a later instruction of the body
StepsForward == stage' = "exec" /\ tpc' > tpc /\ tpc' <= Len(body)

\* the step executes a Divide or Modulo on which idivl traps
DivisionTraps ==
    /\ body[tpc].k = "Binary"
    /\ body[tpc].operator \in {"Divide", "Modulo"}
    /\ DivTraps(ValOf(body[tpc].src1, env, garbage), ValOf(body[tpc].src2, env, garbage))

\* C28 as stated: every conditional jump targets a label defined exactly once
\* and at a later position, and no jump passes over a Return; the execution
\* of a body has an instruction to execute at every step, each step goes to a
\* later position or executes a Return, and so it ends by reaching a Return.
C28_EndsByReturn ==
    /\ [](ForwardJumps(body))
    /\ [](stage = "exec" => tpc \in 1..Len(body))
    /\ [][ stage = "exec" =>
             \/ StepsForward
             \/ stage' = "exited" /\ body[tpc].k = "Return" ]_vars

\* C28, amended: the same, except that a step may also end the execution by
\* the trap of a division (zero divisor, or i32::MIN / -1), and does so
\* exactly on such a division.
C28_EndsByReturnOrTrap ==
    /\ [](ForwardJumps(body))
    /\ [](stage = "exec" => tpc \in 1..Len(body))
    /\ [][ stage = "exec" =>
             \/ StepsForward /\ ~DivisionTraps
             \/ stage' = "exited" /\ body[tpc].k = "Return"
             \/ stage' = "trap" /\ DivisionTraps ]_vars

\* an execution of a body with two conditional jumps or more took one of
\* them and reached the Return
C28_Witness ==
    /\ stage = "exited"
    /\ Cardinality(ConditionalJumps(body)) >= 2
    /\ \E i \in ConditionalJumps(body) :
          /\ i \in executed
          /\ (i + 1) \notin executed
    /\ body[tpc].k = "Return"

\* ------------------------------------------------------------ the stack frame
\* the names the instructions of a TAC body read or write
TacNames(b) ==
    UNION { { v.name : v \in { w \in TacVals(b[i]) : w.k = "Identifier" } }
            : i \in 1..Len(b) }

\* the slot counter starts at -4 and goes down by 4 for every name
FinalCounter(b) == -4 - (4 * Cardinality(TacNames(b)))

StackOffsets(a) ==
    LET ops == OperandSeq(a) IN
    { ops[p].offset : p \in { q \in 1..Len(ops) : ops[q].k = "Stack" } }

\* C22: after apply_fixes the instruction list starts with AllocateStack(n),
\* its only AllocateStack, n is the negation of the final slot counter of
\* pseudo-resolution, and every Stack(offset) operand has -n <= offset <= -4.
C22_FrameHoldsSlots ==
    Legalized =>
      /\ asm # <<>>
      /\ asm[1] = AllocateStack(-FinalCounter(body))
      /\ stack_size = -FinalCounter(body)
      /\ \A i \in 2..Len(asm) : asm[i].k # "AllocateStack"
      /\ \A o \in StackOffsets(asm) : -asm[1].n <= o /\ o <= -4

\* a frame of 16 bytes whose three slots are all used
C22_Witness ==
    /\ stage = "link"
    /\ asm[1] = AllocateStack(16)
    /\ StackOffsets(asm) = {-4, -8, -12}

\* ------------------------------------------------------------- comparisons
IsComparison(instr) ==
    /\ instr.k = "Binary"
    /\ instr.operator \in {"Equal", "NotEqual", "LessThan", "GreaterThan",
                           "LessThanOrEqual", "GreaterThanOrEqual"}

\* what the builder lowers to a SetCC
Setters(b) ==
    { p \in 1..Len(b) :
        IsComparison(b[p]) \/ (b[p].k = "Unary" /\ b[p].operator = "LogicalNot") }

\* the slot of an identifier: -4 times its rank among the names of the
\* builder's list, in order of first occurrence
SlotOf(name) ==
    LET ops == OperandSeq(to_assembly_function(body))
        p   == CHOOSE q \in PseudoAt(ops) : ops[q].name = name
    IN Stack(-4 * Rank(ops, p))

AtComparison == stage = "exec" /\ tpc <= Len(body) /\ IsComparison(body[tpc])

\* C23: when the run reaches a comparison Binary{cmp, a, b, d}, the set<cc>
\* the compiled program executed for it left in d's slot 1 if a cmp b holds
\* for the signed values of a and b and 0 if not, whichever of a and b are
\* constants.
C23_ComparisonStored ==
    AtComparison =>
        LET instr == body[tpc]
            k     == Cardinality(executed \cap Setters(body)) + 1
            a     == Value(instr.src1)
            b     == Value(instr.src2)
            holds == CASE instr.operator = "Equal" -> a = b
                       [] instr.operator = "NotEqual" -> a # b
                       [] instr.operator = "LessThan" -> a < b
                       [] instr.operator = "GreaterThan" -> a > b
                       [] instr.operator = "LessThanOrEqual" -> a <= b
                       [] instr.operator = "GreaterThanOrEqual" -> a >= b
        IN /\ Len(cpu.sets) >= k
           /\ cpu.sets[k].dst = SlotOf(instr.dst.name)
           /\ cpu.sets[k].v = Bool(holds)

\* 2147483647 > b with b = -2: the constant on the left is staged through
\* R11, and the subtraction of the cmpl overflows
C23_Witness ==
    /\ AtComparison
    /\ body[tpc].operator = "GreaterThan"
    /\ body[tpc].src1 = [k |-> "Constant", v |-> I32Max]
    /\ body[tpc].src2.k = "Identifier" /\ Value(body[tpc].src2) = -2
    /\ \E i \in 1..Len(asm) : asm[i].k = "Cmp" /\ asm[i].dst = Register("R11")
    /\ cpu.sets = << [dst |-> SlotOf(body[tpc].dst.name), v |-> 1] >>

\* ------------------------------------------------------- scratch registers
\* C29: the compiled program ends as the TAC it was built from does: it
\* returns the same value in %eax, or traps in the same division; it never
\* divides with %edx other than the sign of %eax, never tests flags an
\* arithmetic instruction changed since the cmpl, never runs off its text.
C29_MeaningPreserved ==
    /\ Running => cpu.halt \in {"ret", "trap"}
    /\ stage = "exited" => (cpu.halt = "ret" /\ cpu.regs["AX"] = exit)
    /\ stage = "trap" => cpu.halt = "trap"

\* a division by an immediate staged through R10, between a comparison's
\* set<cc> (which goes through %eax) and the return of the quotient
C29_Witness ==
    /\ stage = "exited"
    /\ \E i \in 1..Len(asm) : asm[i] = Idiv(Register("R10"))
    /\ cpu.halt = "ret"
    /\ cpu.regs["AX"] = exit
    /\ exit = 3

====
